---- MODULE Spec2Model ----
(***************************************************************************)
(* A state-machine model of the wellness bot: the daily-prompt scheduler   *)
(* (core/scheduler.py), the /settings and /set_timezone conversations, the *)
(* daily-prompt conversations (modules/dailyprompts.py), /rundown          *)
(* (modules/rundown.py) and the rate-limit decorator (utils/ratelimit.py). *)
(*                                                                         *)
(* Time is counted in minutes of UTC since 00:00 UTC of model day 0.  A    *)
(* date is a day number.  A stored "HH:MM" string is the pair <<h, m>>.    *)
(***************************************************************************)
EXTENDS Integers, Sequences, FiniteSets, TLC

\* ------------------------------------------------------------------ bounds
\* Days the clock runs after the first day.
MaxDays == 1
\* The clock stops at every multiple of this many hours (and at every job).
TickHours == 6
\* Timezone rows one user may store.
MaxTzRecords == 2
\* Texts collected for one multi-input item of /rundown.
MaxRundownItems == 2
\* Times one chat starts /rundown.
MaxRundowns == 2
\* The rate limiter's clock runs this many steps of RateStep seconds.
MaxRateSteps == 3
\* Runs of wrapped handler bodies recorded per user.
MaxRuns == 4
\* Rows of table wakesleeps after which /sleep is not started again.
MaxSleepRows == 1
\* Rows of table waters a run stores through /water.
MaxWaterRows == 2
\* Texts one /thought conversation takes, and rows /thought stores in a run.
MaxThoughts == 2
MaxThoughtRows == 2
\* Runs of a saving handler in a run with a failing session.
MaxSaves == 3
\* Calls of Goal.set_goal and Goal.delete_goal in a run.
MaxGoalOps == 3
\* With blocks of transaction() and get_db_session() entered in a run.
MaxTxns == 2
\* Characters of an item text, and item texts of one record.
MaxItemLen == 3
MaxItems == 2

\* The day the run starts on (users were created on day 0).
StartDay == 2

MinutesPerDay == 24 * 60
StartMinute == StartDay * MinutesPerDay
LastMinute == (StartDay + MaxDays) * MinutesPerDay
TickMinutes == TickHours * 60

NoVal == "<none>"
NoDate == 0 - 1

\* ------------------------------------------------------------ program data
PromptTypes == {"gratitude", "themeoftheday", "affirmation", "selflove"}

\* The order of UserSettings.get_schedule_dict().
ScheduleOrder == <<"gratitude", "themeoftheday", "affirmation", "selflove">>

TimezoneNames ==
    {"Asia/Kolkata", "Europe/London", "Pacific/Honolulu", "America/Anchorage",
     "America/Los_Angeles", "America/Denver", "America/Chicago", "America/New_York"}

\* TIMEZONE_DATA[name]["offset"]: the offset string stored beside the name.
TIMEZONE_DATA(name) ==
    CASE name = "Asia/Kolkata"        -> "+5:30"
      [] name = "Europe/London"       -> "+0:00"
      [] name = "Pacific/Honolulu"    -> "-10:00"
      [] name = "America/Anchorage"   -> "-9:00"
      [] name = "America/Los_Angeles" -> "-8:00"
      [] name = "America/Denver"      -> "-7:00"
      [] name = "America/Chicago"     -> "-6:00"
      [] name = "America/New_York"    -> "-5:00"

TIMEZONE_COUNTRY(name) ==
    CASE name = "Asia/Kolkata"  -> "india"
      [] name = "Europe/London" -> "uk"
      [] OTHER                  -> "us"

Seasons == {"winter", "summer"}

\* pytz.timezone(name): the zone's UTC offset in minutes, which follows the
\* zone's daylight-saving rules (northern summer shifts every zone here but
\* Asia/Kolkata and Pacific/Honolulu by one hour).
PytzUtcOffset(name, s) ==
    LET std == CASE name = "Asia/Kolkata"        -> 5 * 60 + 30
                 [] name = "Europe/London"       -> 0
                 [] name = "Pacific/Honolulu"    -> 0 - 10 * 60
                 [] name = "America/Anchorage"   -> 0 - 9 * 60
                 [] name = "America/Los_Angeles" -> 0 - 8 * 60
                 [] name = "America/Denver"      -> 0 - 7 * 60
                 [] name = "America/Chicago"     -> 0 - 6 * 60
                 [] name = "America/New_York"    -> 0 - 5 * 60
        dst == IF s = "summer" /\ name \notin {"Asia/Kolkata", "Pacific/Honolulu"}
               THEN 60 ELSE 0
    IN std + dst

UserIds == {1, 2}
ChatOf(u) == 100 + u
Chats == {ChatOf(u) : u \in UserIds}

\* UserSettings column defaults.
DefaultSettings ==
    [time |-> [t \in PromptTypes |->
                 CASE t = "gratitude"     -> <<7, 0>>
                   [] t = "themeoftheday" -> <<7, 30>>
                   [] t = "affirmation"   -> <<8, 0>>
                   [] t = "selflove"      -> <<21, 0>>],
     enabled |-> [t \in PromptTypes |-> TRUE],
     theme_reminders_enabled |-> TRUE]

VARIABLES
    now,          \* the wall clock, UTC minutes
    season,       \* daylight-saving season of the run
    serverOff,    \* UTC offset of the server's naive datetime.now(), minutes
    users,        \* rows of table users
    timezones,    \* user id -> rows of table timezones, in created_at order
    settings,     \* user id -> row of table user_settings (where one exists)
    jobs,         \* the job queue's jobs, in the order they were added
    sentCount,    \* <<chat, prompt type>> -> the local day of the last prompt
                  \* message sent and the number sent on that day
    fireLog,      \* the outcomes send_daily_prompt has logged so far
    reflections,  \* rows of the four daily-reflection tables, in insert order
    tzConv,       \* chat -> state of the /set_timezone conversation
    settingsConv, \* chat -> state of the /settings conversation
    user_data,    \* chat -> context.user_data
    chat_data,    \* chat -> context.chat_data
    promptConv,   \* chat -> prompt type -> state of that prompt's conversation
    remindReply,  \* chat -> the count in the last "I'll remind you about your
                  \* theme N time(s) today!" reply (0 when a save sent none)
    rundownConv,  \* chat -> state of the /rundown conversation
    activities,   \* rows of the activity tables (sleep, food, water, gym, yoga,
                  \* pranayam, thought, task), in insert order
    rundownHist,  \* chat -> what the last /rundown of the chat has done so far
    rate_limit_store, \* user id -> the entries <<timestamp, command>> of the store
    rateClock,    \* datetime.now() as the rate limiter reads it, in seconds
    bodyRuns,     \* user id -> the <<timestamp, command>> of every run of a
                  \* wrapped handler body
    sleepConv,    \* chat -> state of the /sleep conversation
    wakesleeps,   \* rows of table wakesleeps, in insert order
    waterConv,    \* chat -> state of the /water conversation
    waterAnswered, \* chat -> the states of the /water conversation answered since
                  \* its last start, in the order they were answered
    regConv,      \* chat -> state of the /register conversation
    regInput,     \* the update the /register conversation handled last
    saveConv,     \* logging conversation -> "SAVING" in the state whose handler
                  \* saves the record, "END" outside the conversation
    saveData,     \* whether chat_data and user_data hold a conversation's answers
    saveRows,     \* logging conversation -> rows its table holds
    saveLog,      \* what the last run of a saving handler did
    goals,        \* rows of table goals, in insert order
    goalsConv,    \* chat -> state of the /goals conversation
    goalLog,      \* the last call of Goal.set_goal or Goal.delete_goal
    txn,          \* the with block of transaction() or get_db_session() that is
                  \* open: its position and the session calls made so far
    txnLog,       \* the with blocks that have been left, oldest first
    decoLog,      \* the last call of a handler wrapped by require_user or
                  \* require_timezone
    itemsPhase,   \* "entered", "stored" or "shown"
    itemsEntered, \* the item texts a user sent, in order
    itemsStored,  \* join_items of them, the content column
    itemsShown,   \* split_items of the stored content
    mydayLog,     \* the last /myday: the user, the date and the sections shown
    thoughtConv,  \* chat -> state of the /thought conversation
    thoughtGiven, \* chat -> the texts the /thought conversation has taken since
                  \* its last start, in order
    thoughtRows   \* the rows /thought has stored, each with the texts its
                  \* conversation had taken

\* The variables of the daily-prompt conversations, of /rundown and of the
\* rate limiter.
promptVars == <<promptConv, remindReply>>
rundownVars == <<rundownConv, activities, rundownHist>>
rateVars == <<rate_limit_store, rateClock, bodyRuns>>

sleepVars == <<sleepConv, wakesleeps>>

\* The variables of the conversations and helpers modelled after the rate
\* limiter; the scheduler, /settings, /set_timezone, the prompt conversations,
\* /rundown and the rate limiter leave them alone.
waterVars == <<waterConv, waterAnswered>>
regVars == <<regConv, regInput>>
saveVars == <<saveConv, saveData, saveRows, saveLog>>
goalVars == <<goals, goalsConv, goalLog>>
txnVars == <<txn, txnLog>>
decoVars == <<decoLog>>
itemVars == <<itemsPhase, itemsEntered, itemsStored, itemsShown>>
viewVars == <<mydayLog>>
thoughtVars == <<thoughtConv, thoughtGiven, thoughtRows>>
laterVars == <<sleepVars, waterVars, regVars, saveVars, goalVars, txnVars, decoVars,
               itemVars, viewVars, thoughtVars>>

\* The later groups after the one of /sleep, and after the one of /water.
afterGoalVars == <<txnVars, decoVars, itemVars, viewVars, thoughtVars>>
afterSaveVars == <<goalVars, afterGoalVars>>
afterRegVars == <<saveVars, afterSaveVars>>
afterWaterVars == <<regVars, afterRegVars>>
afterSleepVars == <<waterVars, afterWaterVars>>

\* Everything a logging conversation leaves alone but the clock, chat_data and
\* its own table and state.
quietVars == <<season, serverOff, users, timezones, settings, jobs, sentCount,
               fireLog, reflections, tzConv, settingsConv, user_data,
               promptVars, rundownVars, rateVars>>

vars == <<now, season, serverOff, users, timezones, settings, jobs, sentCount,
          fireLog, reflections, tzConv, settingsConv, user_data, chat_data,
          promptVars, rundownVars, rateVars, laterVars>>

\* The variables of the bot's tables, job queue and conversations.
botVars == <<now, quietVars, chat_data, sleepVars, waterVars, regVars, saveVars,
             goalVars>>

\* What a chat's /rundown has done: the missing list it computed, the items it
\* has prompted for, the <<item, date>> for which it took an input and moved
\* on, whether it has sent "All done!", and how often /rundown was started.
NoRundown ==
    [missing |-> <<>>, prompted |-> {}, filled |-> {}, all_done |-> FALSE, started |-> 0]

\* ------------------------------------------------------------ tables
NoUser == [id |-> 0, chat_id |-> 0, email_id |-> NoVal, created |-> 0]

\* User.get_by_id
get_by_id(id) ==
    IF \E r \in users : r.id = id THEN CHOOSE r \in users : r.id = id ELSE NoUser

\* User.get_user_by_chat_id
get_user_by_chat_id(chat) ==
    IF \E r \in users : r.chat_id = chat
    THEN CHOOSE r \in users : r.chat_id = chat ELSE NoUser

\* A timezones row; created_at is the row's place in the user's sequence.
NoTimezone ==
    [timezone_name |-> NoVal, timezone_offset |-> NoVal, effective_from |-> 0]

HasTimezone(uid) == Len(timezones[uid]) > 0

\* order_by(desc(created_at)).first(): rows are kept in created_at order.
MostRecentlyCreated(rows) == IF Len(rows) = 0 THEN NoTimezone ELSE rows[Len(rows)]

\* User.get_current_timezone
get_current_timezone(uid) == MostRecentlyCreated(timezones[uid])

\* scheduler.get_user_timezone: the pytz zone of the current row's timezone_name.
ZoneOfRecord(rec) == rec.timezone_name

get_user_timezone(uid) == ZoneOfRecord(get_current_timezone(uid))

\* datetime.now() of the server, as a date.
ServerToday == (now + serverOff) \div MinutesPerDay

\* datetime.now(user_tz).date()
LocalDateIn(zone) == (now + PytzUtcOffset(zone, season)) \div MinutesPerDay

\* scheduler.get_user_local_date
get_user_local_date(uid) ==
    IF HasTimezone(uid) THEN LocalDateIn(get_user_timezone(uid)) ELSE ServerToday

\* UserSettings.get_or_create
get_or_create(st, uid) ==
    IF uid \in DOMAIN st THEN st ELSE st @@ (uid :> DefaultSettings)

\* DailyReflectionBase.exists_for_date
exists_for_date(ptype, uid, date) ==
    \E i \in 1 .. Len(reflections) :
        /\ reflections[i].ptype = ptype
        /\ reflections[i].user_id = uid
        /\ reflections[i].prompt_date = date

\* ------------------------------------------------------------ job queue
PromptJobName(ptype, chat) == <<"prompt", ptype, chat, 0, 0>>
ThemeReminderName(chat, today, i) == <<"theme_reminder", "themeoftheday", chat, today, i>>

\* A removal that leaves the queue as it is.
remove_job_by_name_Nothing(q, name) == q

\* scheduler.remove_job_by_name
remove_job_by_name(q, name) == SelectSeq(q, LAMBDA j : j.name # name)

LocalMinutes(hm) == hm[1] * 60 + hm[2]

\* The trigger of time(hour, minute) without tzinfo: the zone is ignored.
NextFire_NoTzinfo(from, hm, zone) ==
    from + 1 + ((LocalMinutes(hm) - from - 1) % MinutesPerDay)

\* The first instant after `from` whose wall time in `zone` is hm: the next
\* fire time of a daily cron trigger created in the course of minute `from`.
NextFire(from, hm, zone) ==
    from + 1 + ((LocalMinutes(hm) - PytzUtcOffset(zone, season) - from - 1) % MinutesPerDay)

\* job_queue.run_daily(send_daily_prompt, time(hour, minute, tzinfo=user_tz), ...)
DailyJob(user, ptype, hm, zone) ==
    [name |-> PromptJobName(ptype, user.chat_id), callback |-> "send_daily_prompt",
     chat_id |-> user.chat_id, user_id |-> user.id, prompt_type |-> ptype,
     hm |-> hm, tz |-> zone, next_run |-> NextFire(now, hm, zone),
     reminder_number |-> 0]

RECURSIVE ScheduleLoop(_, _, _, _)
ScheduleLoop(q, user, row, i) ==
    IF i > Len(ScheduleOrder) THEN q
    ELSE LET t  == ScheduleOrder[i]
             q1 == remove_job_by_name(q, PromptJobName(t, user.chat_id))
             q2 == IF row.enabled[t]
                   THEN Append(q1, DailyJob(user, t, row.time[t],
                                            get_user_timezone(user.id)))
                   ELSE q1
         IN ScheduleLoop(q2, user, row, i + 1)

\* scheduler.schedule_daily_prompts_for_user: the queue it leaves, given the
\* settings table after its get_or_create.
schedule_daily_prompts_for_user(q, user, st) ==
    IF ~HasTimezone(user.id) THEN q ELSE ScheduleLoop(q, user, st[user.id], 1)

\* The settings table schedule_daily_prompts_for_user leaves.
SettingsAfterSchedule(st, user) ==
    IF ~HasTimezone(user.id) THEN st ELSE get_or_create(st, user.id)

RECURSIVE RemoveAllPromptJobs(_, _, _)
RemoveAllPromptJobs(q, chat, i) ==
    IF i > Len(ScheduleOrder) THEN q
    ELSE RemoveAllPromptJobs(remove_job_by_name(q, PromptJobName(ScheduleOrder[i], chat)),
                             chat, i + 1)

\* scheduler.reschedule_user_prompts
reschedule_user_prompts(q, user, st) ==
    schedule_daily_prompts_for_user(RemoveAllPromptJobs(q, user.chat_id, 1), user, st)

RECURSIVE ScheduleAll(_, _, _)
ScheduleAll(q, st, uid) ==
    IF uid > Cardinality(UserIds) THEN <<q, st>>
    ELSE LET user == get_by_id(uid)
         IN IF user.id # 0 /\ HasTimezone(uid)
            THEN LET st1 == get_or_create(st, uid)
                 IN ScheduleAll(schedule_daily_prompts_for_user(q, user, st1), st1, uid + 1)
            ELSE ScheduleAll(q, st, uid + 1)

\* scheduler.schedule_daily_prompts_for_all_users: <<queue, settings table>>
schedule_daily_prompts_for_all_users(q, st) == ScheduleAll(q, st, 1)

\* ------------------------------------------------------------ context data
\* context.chat_data after clear(): every key absent.  A key that is only ever
\* read through .get(key, default) is kept at its default while absent.
EmptyChatData ==
    [editing_prompt |-> NoVal, prompt_date |-> NoDate, items |-> <<>>,
     rundown_missing |-> <<>>, rundown_position |-> 0,
     rundown_current_item |-> NoVal, rundown_items |-> <<>>,
     rundown_date |-> NoDate, rundown_user_id |-> 0,
     sleep_date |-> NoDate, sleep_time |-> NoDate,
     wake_date |-> NoDate, wake_time |-> NoDate,
     water_date |-> NoDate, water_time |-> NoDate, water_amount |-> 0,
     editing_area |-> NoVal, thoughts |-> <<>>]

\* context.user_data after clear().  The keys 'country' and 'user' are written
\* and never read, and are left out.
EmptyUserData ==
    [timezone_name |-> NoVal, timezone_offset |-> NoVal, effective_selection |-> NoVal,
     name |-> NoVal, chat_id |-> 0]

\* helpers.clear_chat_data / helpers.clear_user_data
clear_chat_data(cd, chat) == [cd EXCEPT ![chat] = EmptyChatData]
clear_user_data(ud, chat) == [ud EXCEPT ![chat] = EmptyUserData]

\* ------------------------------------------------------------ clock and jobs
MinOf(S) == CHOOSE x \in S : \A y \in S : x <= y

JobDue(j) == j.next_run <= now

\* The job queue runs a job at its minute, before any update that arrives in
\* the course of that minute is handled.
NoJobDue == \A i \in 1 .. Len(jobs) : ~JobDue(jobs[i])

\* Time passes, up to the next job that is due or the next stop of the clock.
Tick ==
    /\ now < LastMinute
    /\ NoJobDue
    /\ now' = MinOf({(now \div TickMinutes + 1) * TickMinutes, LastMinute}
                     \cup {jobs[i].next_run : i \in 1 .. Len(jobs)})
    /\ UNCHANGED <<promptVars, rundownVars, rateVars>>
    /\ UNCHANGED <<season, serverOff, users, timezones, settings, jobs, sentCount,
                   fireLog, reflections, tzConv, settingsConv, user_data, chat_data>>

\* The decision of a callback that does not look for today's answer.
PromptDecision_NoAnswerCheck(j) ==
    IF get_by_id(j.user_id).id = 0 THEN "no_user" ELSE "sent"

\* What send_daily_prompt decides for a job: "no_user", "already_answered" or "sent".
PromptDecision(j) ==
    LET user == get_by_id(j.user_id)
    IN IF user.id = 0 THEN "no_user"
       ELSE IF exists_for_date(j.prompt_type, j.user_id, get_user_local_date(user.id))
            THEN "already_answered"
            ELSE "sent"

\* scheduler.send_daily_prompt, run by the job queue when a daily job is due.
send_daily_prompt(i) ==
    LET j == jobs[i]
        today == get_user_local_date(j.user_id)
        d == PromptDecision(j)
    IN /\ j.callback = "send_daily_prompt"
       /\ JobDue(j)
       /\ sentCount' = IF d = "sent"
                        THEN [sentCount EXCEPT ![<<j.chat_id, j.prompt_type>>] =
                                 [day |-> today,
                                  n |-> IF @.day = today THEN @.n + 1 ELSE 1]]
                        ELSE sentCount
       /\ fireLog' = fireLog \cup {d}
       /\ jobs' = [jobs EXCEPT ![i].next_run = @ + MinutesPerDay]
       /\ UNCHANGED <<promptVars, rundownVars, rateVars>>
       /\ UNCHANGED <<now, season, serverOff, users, timezones, settings, reflections,
                      tzConv, settingsConv, user_data, chat_data>>

\* The application calls schedule_daily_prompts_for_all_users with its job
\* queue (the call site is not among these sources, so any moment is allowed).
ScheduleAllUsers ==
    LET r == schedule_daily_prompts_for_all_users(jobs, settings)
    IN /\ NoJobDue
       /\ jobs' = r[1]
       /\ settings' = r[2]
       /\ UNCHANGED <<promptVars, rundownVars, rateVars>>
       /\ UNCHANGED <<now, season, serverOff, users, timezones, sentCount, fireLog,
                      reflections, tzConv, settingsConv, user_data, chat_data>>

\* ------------------------------------------------------------ daily prompts
\* PROMPT_CONFIG: min_items, max_items and has_reminders of each prompt type.
PROMPT_CONFIG(ptype) ==
    CASE ptype = "gratitude"     -> [min_items |-> 3, max_items |-> 5, has_reminders |-> FALSE]
      [] ptype = "themeoftheday" -> [min_items |-> 1, max_items |-> 1, has_reminders |-> TRUE]
      [] ptype = "selflove"      -> [min_items |-> 3, max_items |-> 5, has_reminders |-> FALSE]
      [] ptype = "affirmation"   -> [min_items |-> 1, max_items |-> 5, has_reminders |-> FALSE]

\* Hours after the theme is set at which the reminders are due.
THEME_REMINDER_OFFSETS == <<3, 6, 9>>

\* The one-shot job of reminder i, due at `when`.
ReminderJob(user, today, i, when, zone) ==
    [name |-> ThemeReminderName(user.chat_id, today, i),
     callback |-> "send_theme_reminder",
     chat_id |-> user.chat_id, user_id |-> user.id, prompt_type |-> NoVal,
     hm |-> <<0, 0>>, tz |-> zone, next_run |-> when, reminder_number |-> i]

\* The loop "for i in range(1, 4): remove_job_by_name(...)".
RECURSIVE RemoveReminders(_, _, _, _)
RemoveReminders(q, chat, today, i) ==
    IF i > 3 THEN q
    ELSE RemoveReminders(remove_job_by_name(q, ThemeReminderName(chat, today, i)),
                         chat, today, i + 1)

\* The loop of a scheduler that keeps every reminder, whatever its date.
RECURSIVE ReminderLoop_AnyDay(_, _, _, _)
ReminderLoop_AnyDay(r, user, zone, i) ==
    IF i > Len(THEME_REMINDER_OFFSETS) THEN r
    ELSE LET today == (now + PytzUtcOffset(zone, season)) \div MinutesPerDay
             reminder_time == now + THEME_REMINDER_OFFSETS[i] * 60
         IN ReminderLoop_AnyDay(
               <<Append(r[1], ReminderJob(user, today, i, reminder_time, zone)),
                 Append(r[2], ThemeReminderName(user.chat_id, today, i))>>,
               user, zone, i + 1)

\* The loop over THEME_REMINDER_OFFSETS: r is <<queue, job_ids>>.
RECURSIVE ReminderLoop(_, _, _, _)
ReminderLoop(r, user, zone, i) ==
    IF i > Len(THEME_REMINDER_OFFSETS) THEN r
    ELSE LET localNow == now + PytzUtcOffset(zone, season)
             today == localNow \div MinutesPerDay
             reminder_time == now + THEME_REMINDER_OFFSETS[i] * 60
             reminder_date == (reminder_time + PytzUtcOffset(zone, season))
                                 \div MinutesPerDay
         IN IF reminder_time > now /\ reminder_date = today
            THEN ReminderLoop(
                   <<Append(r[1], ReminderJob(user, today, i, reminder_time, zone)),
                     Append(r[2], ThemeReminderName(user.chat_id, today, i))>>,
                   user, zone, i + 1)
            ELSE ReminderLoop(r, user, zone, i + 1)

\* scheduler.schedule_theme_reminders: the queue, the settings table (a row is
\* created for a user who has none) and the job names returned.
schedule_theme_reminders(q, user, st) ==
    LET zone == get_user_timezone(user.id)
        st1 == get_or_create(st, user.id)
        today == (now + PytzUtcOffset(zone, season)) \div MinutesPerDay
    IN IF zone = NoVal
       THEN [queue |-> q, settings |-> st, job_ids |-> <<>>]
       ELSE IF ~st1[user.id].theme_reminders_enabled
            THEN [queue |-> q, settings |-> st1, job_ids |-> <<>>]
            ELSE LET r == ReminderLoop(
                            <<RemoveReminders(q, user.chat_id, today, 1), <<>>>>,
                            user, zone, 1)
                 IN [queue |-> r[1], settings |-> st1, job_ids |-> r[2]]

\* The order in which the four conversation handlers are created; an update
\* goes to the first handler, in the order of registration, that accepts it.
HandlerOrder == <<"gratitude", "themeoftheday", "selflove", "affirmation">>

\* The conversation of ptype is the one a text, /done or /cancel of the chat
\* goes to: it is collecting, and no handler before it is.
FirstCollecting(chat, ptype) ==
    /\ promptConv[chat][ptype] = "COLLECTING"
    /\ \A i \in 1 .. Len(HandlerOrder) :
          (\E k \in i + 1 .. Len(HandlerOrder) : HandlerOrder[k] = ptype)
             => promptConv[chat][HandlerOrder[i]] # "COLLECTING"

\* The text messages sent in a prompt conversation; " " is blank once stripped.
ItemTexts == {"walk", " "}

\* text.strip()
strip(text) == IF text = " " THEN "" ELSE text

\* dailyprompts.start_prompt.  The key 'prompt_type' of chat_data is written
\* and never read, and is left out.
start_prompt(chat, ptype) ==
    LET user == get_user_by_chat_id(chat)
        today == get_user_local_date(user.id)
    IN /\ NoJobDue
       /\ promptConv[chat][ptype] = "END"
       /\ IF user.id = 0 \/ exists_for_date(ptype, user.id, today)
          THEN UNCHANGED <<chat_data, promptConv>>
          ELSE /\ chat_data' = [chat_data EXCEPT ![chat] =
                                   [EmptyChatData EXCEPT !.prompt_date = today]]
               /\ promptConv' = [promptConv EXCEPT ![chat][ptype] = "COLLECTING"]
       /\ UNCHANGED <<now, season, serverOff, users, timezones, settings, jobs,
                      sentCount, fireLog, reflections, tzConv, settingsConv,
                      user_data, remindReply, rundownVars, rateVars>>

\* dailyprompts.save_prompt with chat_data[chat] = cd: the row is inserted
\* unless the user is gone or the insert fails (prompt_date is NOT NULL); the
\* chat_data is cleared and the conversation ends in every case.
save_prompt(chat, ptype, cd) ==
    LET user == get_user_by_chat_id(chat)
        record == [ptype |-> ptype, user_id |-> user.id,
                   prompt_date |-> cd.prompt_date, content |-> cd.items,
                   reminder_count |-> 0]
        saved == user.id # 0 /\ cd.prompt_date # NoDate
        r == schedule_theme_reminders(jobs, user, settings)
    IN /\ reflections' = IF saved THEN Append(reflections, record) ELSE reflections
       /\ IF saved /\ PROMPT_CONFIG(ptype).has_reminders
          THEN /\ jobs' = r.queue
               /\ settings' = r.settings
               /\ remindReply' = [remindReply EXCEPT ![chat] = Len(r.job_ids)]
          ELSE /\ UNCHANGED <<jobs, settings>>
               /\ remindReply' = [remindReply EXCEPT ![chat] = 0]
       /\ chat_data' = clear_chat_data(chat_data, chat)
       /\ promptConv' = [promptConv EXCEPT ![chat][ptype] = "END"]

\* dailyprompts.handle_item
handle_item(chat, ptype, text) ==
    LET config == PROMPT_CONFIG(ptype)
        cd == chat_data[chat]
        one == [cd EXCEPT !.items = <<strip(text)>>]
        more == [cd EXCEPT !.items = Append(@, strip(text))]
    IN /\ NoJobDue
       /\ FirstCollecting(chat, ptype)
       /\ IF strip(text) = ""
          THEN UNCHANGED <<chat_data, promptConv, reflections, jobs, settings, remindReply>>
          ELSE IF config.max_items = 1
               THEN save_prompt(chat, ptype, one)
               ELSE IF Len(more.items) >= config.max_items
                    THEN save_prompt(chat, ptype, more)
                    ELSE /\ chat_data' = [chat_data EXCEPT ![chat] = more]
                         /\ UNCHANGED <<promptConv, reflections, jobs, settings,
                                        remindReply>>
       /\ UNCHANGED <<now, season, serverOff, users, timezones, sentCount, fireLog,
                      tzConv, settingsConv, user_data, rundownVars, rateVars>>

\* dailyprompts.done_items
done_items(chat, ptype) ==
    /\ NoJobDue
    /\ FirstCollecting(chat, ptype)
    /\ IF Len(chat_data[chat].items) < PROMPT_CONFIG(ptype).min_items
       THEN UNCHANGED <<chat_data, promptConv, reflections, jobs, settings, remindReply>>
       ELSE save_prompt(chat, ptype, chat_data[chat])
    /\ UNCHANGED <<now, season, serverOff, users, timezones, sentCount, fireLog,
                   tzConv, settingsConv, user_data, rundownVars, rateVars>>

\* dailyprompts.skip_prompt, as the fallback /skip_<command> of the conversation.
skip_prompt(chat, ptype) ==
    /\ NoJobDue
    /\ promptConv[chat][ptype] = "COLLECTING"
    /\ chat_data' = clear_chat_data(chat_data, chat)
    /\ promptConv' = [promptConv EXCEPT ![chat][ptype] = "END"]
    /\ UNCHANGED <<now, season, serverOff, users, timezones, settings, jobs,
                   sentCount, fireLog, reflections, tzConv, settingsConv,
                   user_data, remindReply, rundownVars, rateVars>>

\* dailyprompts.cancel_prompt
cancel_prompt(chat, ptype) ==
    /\ NoJobDue
    /\ FirstCollecting(chat, ptype)
    /\ chat_data' = clear_chat_data(chat_data, chat)
    /\ promptConv' = [promptConv EXCEPT ![chat][ptype] = "END"]
    /\ UNCHANGED <<now, season, serverOff, users, timezones, settings, jobs,
                   sentCount, fireLog, reflections, tzConv, settingsConv,
                   user_data, remindReply, rundownVars, rateVars>>

\* dailyprompts.timeout_prompt
timeout_prompt(chat, ptype) ==
    /\ NoJobDue
    /\ promptConv[chat][ptype] = "COLLECTING"
    /\ chat_data' = clear_chat_data(chat_data, chat)
    /\ promptConv' = [promptConv EXCEPT ![chat][ptype] = "END"]
    /\ UNCHANGED <<now, season, serverOff, users, timezones, settings, jobs,
                   sentCount, fireLog, reflections, tzConv, settingsConv,
                   user_data, remindReply, rundownVars, rateVars>>

\* The row send_theme_reminder updates: the first theme of the user for today.
ThemeRowFor(uid, today) ==
    LET hits == {k \in 1 .. Len(reflections) :
                    /\ reflections[k].ptype = "themeoftheday"
                    /\ reflections[k].user_id = uid
                    /\ reflections[k].prompt_date = today}
    IN IF hits = {} THEN 0 ELSE MinOf(hits)

\* scheduler.send_theme_reminder, run once by the job queue when the job is due.
send_theme_reminder(i) ==
    LET j == jobs[i]
        user == get_by_id(j.user_id)
        k == ThemeRowFor(j.user_id, get_user_local_date(j.user_id))
    IN /\ j.callback = "send_theme_reminder"
       /\ JobDue(j)
       /\ jobs' = SubSeq(jobs, 1, i - 1) \o SubSeq(jobs, i + 1, Len(jobs))
       /\ reflections' = IF user.id # 0 /\ k # 0
                          THEN [reflections EXCEPT ![k].reminder_count = j.reminder_number]
                          ELSE reflections
       /\ UNCHANGED <<now, season, serverOff, users, timezones, settings, sentCount,
                      fireLog, tzConv, settingsConv, user_data, chat_data,
                      promptVars, rundownVars, rateVars>>

\* A row of table users is removed from the database.
UserRowRemoved(u) ==
    /\ u \in users
    /\ users' = users \ {u}
    /\ UNCHANGED <<now, season, serverOff, timezones, settings, jobs, sentCount,
                   fireLog, reflections, tzConv, settingsConv, user_data, chat_data,
                   promptVars, rundownVars, rateVars>>

\* ------------------------------------------------------------ /rundown
RUNDOWN_ORDER ==
    <<"sleep", "food", "water", "gym", "yoga", "pranayam", "thought", "task",
      "gratitude", "themeoftheday", "affirmation", "selflove">>

MULTI_INPUT_ITEMS == {"food", "thought", "task", "gratitude", "affirmation", "selflove"}

\* The items stored in the four daily-reflection tables.
PROMPT_MODELS == {"gratitude", "themeoftheday", "affirmation", "selflove"}

\* A row of an activity table; `date` is func.date() of the column that
\* get_today_status compares with today.
ActivityRow(kind, uid, date, amount_ml) ==
    [kind |-> kind, user_id |-> uid, date |-> date, amount_ml |-> amount_ml]

\* func.sum(Water.amount_ml) over the first k rows, for the user and the date.
RECURSIVE WaterTotal(_, _, _)
WaterTotal(uid, today, k) ==
    IF k = 0 THEN 0
    ELSE WaterTotal(uid, today, k - 1)
         + (IF /\ activities[k].kind = "water"
               /\ activities[k].user_id = uid
               /\ activities[k].date = today
            THEN activities[k].amount_ml ELSE 0)

\* status[item]['logged'] of rundown.get_today_status
Logged(item, uid, today) ==
    IF item \in PROMPT_MODELS THEN exists_for_date(item, uid, today)
    ELSE IF item = "water" THEN WaterTotal(uid, today, Len(activities)) # 0
    ELSE \E k \in 1 .. Len(activities) :
            /\ activities[k].kind = item
            /\ activities[k].user_id = uid
            /\ activities[k].date = today

\* missing = [key for key in RUNDOWN_ORDER if not status[key]['logged']]
MissingItems(uid, today) ==
    SelectSeq(RUNDOWN_ORDER, LAMBDA item : ~Logged(item, uid, today))

\* rundown.parse_water_amount on the texts sent in the runs; 0 stands for None.
parse_water_amount(text) ==
    CASE text = "500ml"     -> 500
      [] text = "2 glasses" -> 500
      [] text = "0ml"       -> 0
      [] text = "-500ml"    -> 0 - 500
      [] OTHER              -> 0

\* rundown.rundown, the entry point.  The key 'rundown_status' of chat_data is
\* written and never read, and is left out.
rundown(chat) ==
    LET user == get_user_by_chat_id(chat)
        today == get_user_local_date(user.id)
        missing == MissingItems(user.id, today)
    IN /\ NoJobDue
       /\ rundownConv[chat] = "END"
       /\ rundownHist[chat].started < MaxRundowns
       /\ IF user.id = 0
          THEN UNCHANGED <<chat_data, rundownConv, rundownHist>>
          ELSE /\ rundownHist' = [rundownHist EXCEPT ![chat] =
                                     [NoRundown EXCEPT !.missing = missing,
                                                       !.started = rundownHist[chat].started + 1]]
               /\ IF missing = <<>>
                  THEN /\ chat_data' = clear_chat_data(chat_data, chat)
                       /\ UNCHANGED rundownConv
                  ELSE /\ chat_data' = [chat_data EXCEPT ![chat] =
                                           [EmptyChatData EXCEPT
                                               !.rundown_date = today,
                                               !.rundown_user_id = user.id,
                                               !.rundown_missing = missing,
                                               !.rundown_position = 0]]
                       /\ rundownConv' = [rundownConv EXCEPT ![chat] = "ASK_CONTINUE"]
       /\ UNCHANGED <<now, season, serverOff, users, timezones, settings, jobs,
                      sentCount, fireLog, reflections, tzConv, settingsConv,
                      user_data, promptVars, activities, rateVars>>

\* rundown.prompt_next_item with chat_data[chat] = cd and the history h.
prompt_next_item(chat, cd, h) ==
    IF cd.rundown_position >= Len(cd.rundown_missing)
    THEN /\ chat_data' = clear_chat_data(chat_data, chat)
         /\ rundownConv' = [rundownConv EXCEPT ![chat] = "END"]
         /\ rundownHist' = [rundownHist EXCEPT ![chat] = [h EXCEPT !.all_done = TRUE]]
    ELSE LET current_item == cd.rundown_missing[cd.rundown_position + 1]
         IN /\ chat_data' = [chat_data EXCEPT ![chat] =
                                [cd EXCEPT !.rundown_current_item = current_item,
                                           !.rundown_items = <<>>]]
            /\ rundownConv' = [rundownConv EXCEPT ![chat] = "COLLECTING"]
            /\ rundownHist' = [rundownHist EXCEPT ![chat] =
                                  [h EXCEPT !.prompted = @ \cup {current_item}]]

\* rundown.advance_to_next
advance_to_next(chat, cd, h) ==
    prompt_next_item(chat,
                     [cd EXCEPT !.rundown_position = @ + 1, !.rundown_items = <<>>],
                     h)

\* rundown.handle_continue_choice
handle_continue_choice(chat, data) ==
    /\ NoJobDue
    /\ rundownConv[chat] = "ASK_CONTINUE"
    /\ IF data = "skip_rundown"
       THEN /\ chat_data' = clear_chat_data(chat_data, chat)
            /\ rundownConv' = [rundownConv EXCEPT ![chat] = "END"]
            /\ UNCHANGED rundownHist
       ELSE prompt_next_item(chat, chat_data[chat], rundownHist[chat])
    /\ UNCHANGED <<now, season, serverOff, users, timezones, settings, jobs,
                   sentCount, fireLog, reflections, tzConv, settingsConv,
                   user_data, promptVars, activities, rateVars>>

\* rundown.save_current_item: thoughts, tasks and water are stamped with the
\* server's datetime.now(), the reflections with the rundown's date; the input
\* for sleep, food, gym, yoga and pranayam is answered with a pointer to the
\* dedicated command.  The rundown advances in every case.
save_current_item(chat, items) ==
    LET cd == chat_data[chat]
        current_item == cd.rundown_current_item
        today == cd.rundown_date
        user == get_by_id(cd.rundown_user_id)
        amount == parse_water_amount(items[1])
        h == [rundownHist[chat] EXCEPT !.filled = @ \cup {<<current_item, today>>}]
    IN /\ IF user.id = 0
          THEN UNCHANGED <<activities, reflections>>
          ELSE IF current_item \in {"thought", "task"}
               THEN /\ activities' = Append(activities,
                                            ActivityRow(current_item, user.id,
                                                        ServerToday, 0))
                    /\ UNCHANGED reflections
               ELSE IF current_item \in PROMPT_MODELS
                    THEN /\ reflections' =
                              IF today = NoDate THEN reflections
                              ELSE Append(reflections,
                                          [ptype |-> current_item, user_id |-> user.id,
                                           prompt_date |-> today, content |-> items,
                                           reminder_count |-> 0])
                         /\ UNCHANGED activities
                    ELSE IF current_item = "water" /\ amount # 0
                         THEN /\ activities' = Append(activities,
                                                      ActivityRow("water", user.id,
                                                                  ServerToday, amount))
                              /\ UNCHANGED reflections
                         ELSE UNCHANGED <<activities, reflections>>
       /\ advance_to_next(chat, cd, h)

\* rundown.handle_item_input
handle_item_input(chat, text) ==
    LET cd == chat_data[chat]
    IN /\ NoJobDue
       /\ rundownConv[chat] = "COLLECTING"
       /\ Len(cd.rundown_items) < MaxRundownItems
       /\ IF strip(text) = ""
          THEN UNCHANGED <<chat_data, rundownConv, rundownHist, activities, reflections>>
          ELSE IF cd.rundown_current_item \in MULTI_INPUT_ITEMS
               THEN /\ chat_data' = [chat_data EXCEPT ![chat].rundown_items =
                                        Append(@, strip(text))]
                    /\ UNCHANGED <<rundownConv, rundownHist, activities, reflections>>
               ELSE save_current_item(chat, <<strip(text)>>)
       /\ UNCHANGED <<now, season, serverOff, users, timezones, settings, jobs,
                      sentCount, fireLog, tzConv, settingsConv, user_data,
                      promptVars, rateVars>>

\* rundown.handle_done_command
handle_done_command(chat) ==
    /\ NoJobDue
    /\ rundownConv[chat] = "COLLECTING"
    /\ IF chat_data[chat].rundown_items = <<>>
       THEN UNCHANGED <<chat_data, rundownConv, rundownHist, activities, reflections>>
       ELSE save_current_item(chat, chat_data[chat].rundown_items)
    /\ UNCHANGED <<now, season, serverOff, users, timezones, settings, jobs,
                   sentCount, fireLog, tzConv, settingsConv, user_data,
                   promptVars, rateVars>>

\* rundown.skip_current_item, the button under the prompt of an item.
skip_current_item(chat) ==
    /\ NoJobDue
    /\ rundownConv[chat] = "COLLECTING"
    /\ advance_to_next(chat, chat_data[chat], rundownHist[chat])
    /\ UNCHANGED <<now, season, serverOff, users, timezones, settings, jobs,
                   sentCount, fireLog, reflections, tzConv, settingsConv,
                   user_data, promptVars, activities, rateVars>>

\* The fallback CommandHandler('skip', ...) of rundown_handler: a command has
\* no callback_query, so the lambda calls advance_to_next, in any state of the
\* conversation.
skip_fallback(chat) ==
    /\ NoJobDue
    /\ rundownConv[chat] \in {"ASK_CONTINUE", "COLLECTING"}
    /\ advance_to_next(chat, chat_data[chat], rundownHist[chat])
    /\ UNCHANGED <<now, season, serverOff, users, timezones, settings, jobs,
                   sentCount, fireLog, reflections, tzConv, settingsConv,
                   user_data, promptVars, activities, rateVars>>

\* rundown.cancel_rundown
cancel_rundown(chat) ==
    /\ NoJobDue
    /\ rundownConv[chat] \in {"ASK_CONTINUE", "COLLECTING"}
    /\ chat_data' = clear_chat_data(chat_data, chat)
    /\ rundownConv' = [rundownConv EXCEPT ![chat] = "END"]
    /\ UNCHANGED <<now, season, serverOff, users, timezones, settings, jobs,
                   sentCount, fireLog, reflections, tzConv, settingsConv,
                   user_data, promptVars, activities, rundownHist, rateVars>>

\* rundown.timeout_rundown
timeout_rundown(chat) ==
    /\ NoJobDue
    /\ rundownConv[chat] \in {"ASK_CONTINUE", "COLLECTING"}
    /\ chat_data' = clear_chat_data(chat_data, chat)
    /\ rundownConv' = [rundownConv EXCEPT ![chat] = "END"]
    /\ UNCHANGED <<now, season, serverOff, users, timezones, settings, jobs,
                   sentCount, fireLog, reflections, tzConv, settingsConv,
                   user_data, promptVars, activities, rundownHist, rateVars>>

\* ------------------------------------------------------------ rate limiter
\* Seconds between two readings of the clock.
RateStep == 20

\* The decorated handlers: register, as registration.py decorates it, and a
\* second handler decorated with a shorter period.
Decorations ==
    {[cmd |-> "register", max_calls |-> 3, period_seconds |-> 60],
     [cmd |-> "my_command", max_calls |-> 2, period_seconds |-> 20]}

\* The user ids of updates; 0 is an update without an effective user.
EffectiveUsers == UserIds \cup {0}

\* The store of user u after "Clean old entries for this user".
CleanedEntries(u, d) ==
    SelectSeq(rate_limit_store[u], LAMBDA e : e[1] > rateClock - d.period_seconds)

\* recent_calls = len(_rate_limit_store[user_id]) after the cleaning.
recent_calls(u, d) == Len(CleanedEntries(u, d))

\* ratelimit.rate_limit.<locals>.wrapper, for a call of the handler decorated
\* as d by user u: the body runs unless the user is limited.
wrapper(u, d) ==
    /\ Len(bodyRuns[u]) < MaxRuns
    /\ IF u = 0
       THEN /\ bodyRuns' = [bodyRuns EXCEPT ![u] = Append(@, <<rateClock, d.cmd>>)]
            /\ UNCHANGED rate_limit_store
       ELSE IF recent_calls(u, d) >= d.max_calls
            THEN /\ rate_limit_store' = [rate_limit_store EXCEPT ![u] = CleanedEntries(u, d)]
                 /\ UNCHANGED bodyRuns
            ELSE /\ rate_limit_store' =
                       [rate_limit_store EXCEPT ![u] =
                           Append(CleanedEntries(u, d), <<rateClock, d.cmd>>)]
                 /\ bodyRuns' = [bodyRuns EXCEPT ![u] = Append(@, <<rateClock, d.cmd>>)]
    /\ UNCHANGED <<now, season, serverOff, users, timezones, settings, jobs,
                   sentCount, fireLog, reflections, tzConv, settingsConv, user_data,
                   chat_data, promptVars, rundownVars, rateClock>>

\* datetime.now() moves on.
RateTick ==
    /\ rateClock < MaxRateSteps * RateStep
    /\ rateClock' = rateClock + RateStep
    /\ UNCHANGED <<now, season, serverOff, users, timezones, settings, jobs,
                   sentCount, fireLog, reflections, tzConv, settingsConv, user_data,
                   chat_data, promptVars, rundownVars, rate_limit_store, bodyRuns>>

\* ------------------------------------------------------------ /set_timezone
\* COUNTRY_ALIASES.get(text.strip().lower())
COUNTRY_ALIASES(text) ==
    CASE text \in {"india"} -> "india"
      [] text \in {"uk", "united kingdom", "great britain", "britain"} -> "uk"
      [] text \in {"us", "usa", "united states", "united states of america", "america"}
            -> "us"
      [] OTHER -> NoVal

CountryInputs == {"india", "britain", "usa", "france"}

\* The zones the model's users pick among.
ZoneInputs == {"Asia/Kolkata", "Pacific/Honolulu"}

EffectiveInputs == {"sincefirstday", "yesterday", "today"}

\* timezone.set_timezone (entry point)
set_timezone(chat) ==
    /\ NoJobDue
    /\ tzConv[chat] = "END"
    /\ tzConv' = IF get_user_by_chat_id(chat).id = 0 THEN tzConv
                  ELSE [tzConv EXCEPT ![chat] = "COUNTRY"]
    /\ UNCHANGED <<promptVars, rundownVars, rateVars>>
    /\ UNCHANGED <<now, season, serverOff, users, timezones, settings, jobs, sentCount,
                   fireLog, reflections, settingsConv, user_data, chat_data>>

\* timezone.handle_country
handle_country(chat, text) ==
    LET country == COUNTRY_ALIASES(text)
    IN /\ NoJobDue
       /\ tzConv[chat] = "COUNTRY"
       /\ IF country = NoVal
          THEN UNCHANGED <<tzConv, user_data>>
          ELSE /\ tzConv' = [tzConv EXCEPT ![chat] = "TIMEZONE_NAME"]
               /\ UNCHANGED user_data
       /\ UNCHANGED <<promptVars, rundownVars, rateVars>>
       /\ UNCHANGED <<now, season, serverOff, users, timezones, settings, jobs,
                      sentCount, fireLog, reflections, settingsConv, chat_data>>

\* timezone.handle_timezone_selection
handle_timezone_selection(chat, tz_name) ==
    /\ NoJobDue
    /\ tzConv[chat] = "TIMEZONE_NAME"
    /\ user_data' = [user_data EXCEPT ![chat].timezone_name = tz_name,
                                       ![chat].timezone_offset = TIMEZONE_DATA(tz_name)]
    /\ tzConv' = [tzConv EXCEPT ![chat] = "EFFECTIVE_FROM"]
    /\ UNCHANGED <<promptVars, rundownVars, rateVars>>
    /\ UNCHANGED <<now, season, serverOff, users, timezones, settings, jobs, sentCount,
                   fireLog, reflections, settingsConv, chat_data>>

\* The effective date save_timezone derives from the selection.
EffectiveDate(user, selection) ==
    CASE selection = "sincefirstday" -> user.created
      [] selection = "yesterday"     -> ServerToday - 1
      [] OTHER                       -> ServerToday

\* The Timezone row save_timezone builds.
NewTimezoneRow(user, ud) ==
    [timezone_name |-> ud.timezone_name, timezone_offset |-> ud.timezone_offset,
     effective_from |-> EffectiveDate(user, ud.effective_selection)]

\* timezone.save_timezone: the timezones table it leaves (it touches no job).
save_timezone(user, ud) ==
    [timezones EXCEPT ![user.id] = Append(@, NewTimezoneRow(user, ud))]

\* timezone.handle_effective_from, which ends in save_timezone
handle_effective_from(chat, selection) ==
    LET user == get_user_by_chat_id(chat)
        ud == [user_data[chat] EXCEPT !.effective_selection = selection]
    IN /\ NoJobDue
       /\ tzConv[chat] = "EFFECTIVE_FROM"
       /\ user.id # 0 => Len(timezones[user.id]) < MaxTzRecords
       /\ IF user.id = 0
          THEN /\ user_data' = clear_user_data(user_data, chat)
               /\ tzConv' = [tzConv EXCEPT ![chat] = "END"]
               /\ UNCHANGED timezones
          ELSE IF ud.timezone_name = NoVal
          THEN \* user_data['timezone_name'] raises KeyError: the handler dies
               /\ user_data' = [user_data EXCEPT ![chat] = ud]
               /\ UNCHANGED <<tzConv, timezones>>
          ELSE /\ timezones' = save_timezone(user, ud)
               /\ user_data' = clear_user_data(user_data, chat)
               /\ tzConv' = [tzConv EXCEPT ![chat] = "END"]
       /\ UNCHANGED <<promptVars, rundownVars, rateVars>>
       /\ UNCHANGED <<now, season, serverOff, users, settings, jobs, sentCount, fireLog,
                      reflections, settingsConv, chat_data>>

\* timezone.cancel
cancel_timezone(chat) ==
    /\ NoJobDue
    /\ tzConv[chat] # "END"
    /\ user_data' = clear_user_data(user_data, chat)
    /\ tzConv' = [tzConv EXCEPT ![chat] = "END"]
    /\ UNCHANGED <<promptVars, rundownVars, rateVars>>
    /\ UNCHANGED <<now, season, serverOff, users, timezones, settings, jobs, sentCount,
                   fireLog, reflections, settingsConv, chat_data>>

\* timezone.timeout
timeout_timezone(chat) ==
    /\ NoJobDue
    /\ tzConv[chat] # "END"
    /\ user_data' = clear_user_data(user_data, chat)
    /\ tzConv' = [tzConv EXCEPT ![chat] = "END"]
    /\ UNCHANGED <<promptVars, rundownVars, rateVars>>
    /\ UNCHANGED <<now, season, serverOff, users, timezones, settings, jobs, sentCount,
                   fireLog, reflections, settingsConv, chat_data>>

\* ------------------------------------------------------------ /settings
NoTime == <<0 - 1, 0 - 1>>

\* A time text the user sends: its hour digits, minute digits and period
\* ("" when none), or a text the pattern does not match.
TimeInputs ==
    {[matches |-> TRUE, hour |-> 7, minute |-> 0, period |-> ""],
     [matches |-> TRUE, hour |-> 9, minute |-> 0, period |-> "pm"],
     [matches |-> TRUE, hour |-> 13, minute |-> 0, period |-> "pm"],
     [matches |-> TRUE, hour |-> 7, minute |-> 75, period |-> ""],
     [matches |-> FALSE, hour |-> 0, minute |-> 0, period |-> ""]}

\* settings.parse_time_input: the 24h <<hour, minute>>, or NoTime (None).
parse_time_input(text) ==
    IF ~text.matches THEN NoTime
    ELSE IF text.minute < 0 \/ text.minute > 59 THEN NoTime
    ELSE IF text.period # ""
         THEN IF text.hour < 1 \/ text.hour > 12 THEN NoTime
              ELSE IF text.period = "am" /\ text.hour = 12 THEN <<0, text.minute>>
              ELSE IF text.period = "pm" /\ text.hour # 12
                   THEN <<text.hour + 12, text.minute>>
              ELSE <<text.hour, text.minute>>
         ELSE IF text.hour < 0 \/ text.hour > 23 THEN NoTime
              ELSE <<text.hour, text.minute>>

\* The callback data of the settings keyboards.
SettingsButtons ==
    {[op |-> o, ptype |-> NoVal] :
        o \in {"settings_done", "back_to_menu", "toggle_theme_reminders", "other"}}
    \cup {[op |-> o, ptype |-> t] : o \in {"set", "toggle_enable"}, t \in PromptTypes}

\* settings.start_settings (entry point)
start_settings(chat) ==
    LET user == get_user_by_chat_id(chat)
    IN /\ NoJobDue
       /\ settingsConv[chat] = "END"
       /\ IF user.id = 0
          THEN UNCHANGED <<settings, settingsConv>>
          ELSE /\ settings' = get_or_create(settings, user.id)
               /\ settingsConv' = [settingsConv EXCEPT ![chat] = "SELECT_SETTING"]
       /\ UNCHANGED <<promptVars, rundownVars, rateVars>>
       /\ UNCHANGED <<now, season, serverOff, users, timezones, jobs, sentCount, fireLog,
                      reflections, tzConv, user_data, chat_data>>

\* The settings row after the toggle_enable_<ptype> button.
ToggleEnabled(st, uid, ptype) ==
    [get_or_create(st, uid) EXCEPT ![uid].enabled[ptype] = ~@]

\* The settings row after handle_time_input stored a parsed time.
SetTime(st, uid, ptype, hm) ==
    [get_or_create(st, uid) EXCEPT ![uid].time[ptype] = hm]

\* settings.handle_setting_selection
handle_setting_selection(chat, data) ==
    LET user == get_user_by_chat_id(chat)
    IN /\ NoJobDue
       /\ settingsConv[chat] \in {"SELECT_SETTING", "SET_TIME"}
       /\ CASE data.op = "settings_done" ->
                 /\ chat_data' = clear_chat_data(chat_data, chat)
                 /\ settingsConv' = [settingsConv EXCEPT ![chat] = "END"]
                 /\ UNCHANGED <<settings, jobs>>
            [] data.op = "back_to_menu" ->
                 /\ settings' = IF user.id = 0 THEN settings
                                 ELSE get_or_create(settings, user.id)
                 /\ settingsConv' = [settingsConv EXCEPT ![chat] = "SELECT_SETTING"]
                 /\ UNCHANGED <<chat_data, jobs>>
            [] data.op = "toggle_theme_reminders" ->
                 /\ settings' =
                      IF user.id = 0 THEN settings
                      ELSE [get_or_create(settings, user.id)
                              EXCEPT ![user.id].theme_reminders_enabled = ~@]
                 /\ settingsConv' = [settingsConv EXCEPT ![chat] = "SELECT_SETTING"]
                 /\ UNCHANGED <<chat_data, jobs>>
            [] data.op = "set" ->
                 /\ chat_data' = [chat_data EXCEPT ![chat].editing_prompt = data.ptype]
                 /\ settings' = IF user.id = 0 THEN settings
                                 ELSE get_or_create(settings, user.id)
                 /\ settingsConv' = [settingsConv EXCEPT ![chat] = "SET_TIME"]
                 /\ UNCHANGED jobs
            [] data.op = "toggle_enable" ->
                 /\ settings' = IF user.id = 0 THEN settings
                                 ELSE ToggleEnabled(settings, user.id, data.ptype)
                 /\ jobs' = IF user.id = 0 THEN jobs
                             ELSE reschedule_user_prompts(jobs, user, settings')
                 /\ settingsConv' = [settingsConv EXCEPT ![chat] = "SELECT_SETTING"]
                 /\ UNCHANGED chat_data
            [] OTHER ->
                 /\ settingsConv' = [settingsConv EXCEPT ![chat] = "SELECT_SETTING"]
                 /\ UNCHANGED <<settings, jobs, chat_data>>
       /\ UNCHANGED <<promptVars, rundownVars, rateVars>>
       /\ UNCHANGED <<now, season, serverOff, users, timezones, sentCount, fireLog,
                      reflections, tzConv, user_data>>

\* settings.handle_time_input
handle_time_input(chat, text) ==
    LET user == get_user_by_chat_id(chat)
        prompt_type == chat_data[chat].editing_prompt
        parsed_time == parse_time_input(text)
    IN /\ NoJobDue
       /\ settingsConv[chat] = "SET_TIME"
       /\ IF prompt_type = NoVal
          THEN /\ chat_data' = clear_chat_data(chat_data, chat)
               /\ settingsConv' = [settingsConv EXCEPT ![chat] = "END"]
               /\ UNCHANGED <<settings, jobs>>
          ELSE IF parsed_time = NoTime
          THEN UNCHANGED <<chat_data, settingsConv, settings, jobs>>
          ELSE IF user.id = 0
          THEN /\ chat_data' = clear_chat_data(chat_data, chat)
               /\ settingsConv' = [settingsConv EXCEPT ![chat] = "END"]
               /\ UNCHANGED <<settings, jobs>>
          ELSE /\ settings' = SetTime(settings, user.id, prompt_type, parsed_time)
               /\ jobs' = reschedule_user_prompts(jobs, user, settings')
               /\ chat_data' = clear_chat_data(chat_data, chat)
               /\ settingsConv' = [settingsConv EXCEPT ![chat] = "SELECT_SETTING"]
       /\ UNCHANGED <<promptVars, rundownVars, rateVars>>
       /\ UNCHANGED <<now, season, serverOff, users, timezones, sentCount, fireLog,
                      reflections, tzConv, user_data>>

\* settings.cancel_settings
cancel_settings(chat) ==
    /\ NoJobDue
    /\ settingsConv[chat] # "END"
    /\ chat_data' = clear_chat_data(chat_data, chat)
    /\ settingsConv' = [settingsConv EXCEPT ![chat] = "END"]
    /\ UNCHANGED <<promptVars, rundownVars, rateVars>>
    /\ UNCHANGED <<now, season, serverOff, users, timezones, settings, jobs, sentCount,
                   fireLog, reflections, tzConv, user_data>>

\* settings.timeout_settings
timeout_settings(chat) ==
    /\ NoJobDue
    /\ settingsConv[chat] # "END"
    /\ chat_data' = clear_chat_data(chat_data, chat)
    /\ settingsConv' = [settingsConv EXCEPT ![chat] = "END"]
    /\ UNCHANGED <<promptVars, rundownVars, rateVars>>
    /\ UNCHANGED <<now, season, serverOff, users, timezones, settings, jobs, sentCount,
                   fireLog, reflections, tzConv, user_data>>

\* ------------------------------------------------------------ /sleep
\* datetime.now() of the server as a naive datetime, in minutes.
ServerNow == now + serverOff

\* The date buttons pressed (DATE_PATTERN) and their offsets in
\* formatters.parse_date_selection; "other" and "now" are handled before it.
DateButtons == {"today", "yday", "other", "now"}
parse_date_selection(selection) ==
    ServerToday - (CASE selection = "today" -> 0
                     [] selection = "yday" -> 1
                     [] selection = "daybeforeyday" -> 2
                     [] selection = "3daysago" -> 3
                     [] selection = "4daysago" -> 4
                     [] OTHER -> 0)

\* The hour buttons pressed (HOUR_PATTERN): "now" or an hour.
HourButtons == {"now", "6", "22"}

\* The minute buttons pressed (MINUTE_PATTERN): "H:MM" as the pair <<H, MM>>.
MinuteButtons == {<<6, 0>>, <<22, 30>>}

\* formatters.combine_date_time
combine_date_time(d, hm) == d * MinutesPerDay + LocalMinutes(hm)

\* formatters.parse_custom_date on the texts typed here, day 0 being 1 January
\* of the current year; a text without a separator is no date.
CustomDateTexts == {"02/01", "soon"}
parse_custom_date(text) ==
    CASE text = "02/01" -> 1
      [] OTHER -> NoDate

\* getcurrentuser.get_user_with_timezone: the user of the chat, or NoUser when
\* there is none or the user has no timezones row.
get_user_with_timezone(chat) ==
    LET user == get_user_by_chat_id(chat)
    IN IF user.id # 0 /\ HasTimezone(user.id) THEN user ELSE NoUser

\* wakesleep.sleep, the entry point /sleep
sleep(chat) ==
    /\ sleepConv[chat] = "END"
    /\ Len(wakesleeps) < MaxSleepRows
    /\ IF get_user_with_timezone(chat).id = 0
       THEN UNCHANGED <<chat_data, sleepConv>>
       ELSE /\ chat_data' = [chat_data EXCEPT ![chat] = EmptyChatData]
            /\ sleepConv' = [sleepConv EXCEPT ![chat] = "SLEEP_DATE"]
    /\ UNCHANGED <<now, quietVars, wakesleeps>>

\* wakesleep.handle_sleep_date
handle_sleep_date(chat, data) ==
    /\ sleepConv[chat] = "SLEEP_DATE"
    /\ CASE data = "now" ->
              /\ chat_data' = [chat_data EXCEPT ![chat].sleep_time = ServerNow]
              /\ sleepConv' = [sleepConv EXCEPT ![chat] = "WAKE_DATE"]
         [] data = "other" ->
              /\ sleepConv' = [sleepConv EXCEPT ![chat] = "CUSTOM_SLEEP_DATE"]
              /\ UNCHANGED chat_data
         [] OTHER ->
              /\ chat_data' = [chat_data EXCEPT
                                 ![chat].sleep_date = parse_date_selection(data)]
              /\ sleepConv' = [sleepConv EXCEPT ![chat] = "SLEEP_HOUR"]
    /\ UNCHANGED <<now, quietVars, wakesleeps>>

\* wakesleep.handle_custom_sleep_date
handle_custom_sleep_date(chat, text) ==
    /\ sleepConv[chat] = "CUSTOM_SLEEP_DATE"
    /\ IF parse_custom_date(text) = NoDate
       THEN UNCHANGED <<chat_data, sleepConv>>
       ELSE /\ chat_data' = [chat_data EXCEPT
                               ![chat].sleep_date = parse_custom_date(text)]
            /\ sleepConv' = [sleepConv EXCEPT ![chat] = "SLEEP_HOUR"]
    /\ UNCHANGED <<now, quietVars, wakesleeps>>

\* wakesleep.handle_sleep_hour; the hour itself is only used for the keyboard.
handle_sleep_hour(chat, data) ==
    /\ sleepConv[chat] = "SLEEP_HOUR"
    /\ IF data = "now"
       THEN /\ chat_data' = [chat_data EXCEPT ![chat].sleep_time = ServerNow]
            /\ sleepConv' = [sleepConv EXCEPT ![chat] = "WAKE_DATE"]
       ELSE /\ sleepConv' = [sleepConv EXCEPT ![chat] = "SLEEP_MINUTE"]
            /\ UNCHANGED chat_data
    /\ UNCHANGED <<now, quietVars, wakesleeps>>

\* wakesleep.handle_sleep_minute; chat_data['sleep_date'] raises KeyError when
\* the key is absent and the update is dropped.
handle_sleep_minute(chat, hm) ==
    /\ sleepConv[chat] = "SLEEP_MINUTE"
    /\ chat_data[chat].sleep_date # NoDate
    /\ chat_data' = [chat_data EXCEPT
                       ![chat].sleep_time = combine_date_time(chat_data[chat].sleep_date, hm)]
    /\ sleepConv' = [sleepConv EXCEPT ![chat] = "WAKE_DATE"]
    /\ UNCHANGED <<now, quietVars, wakesleeps>>

\* The check both wake handlers make before they store wake_time.
WakeAccepted_NoCheck(wake_datetime, sleep_time) == TRUE

WakeAccepted(wake_datetime, sleep_time) == ~(wake_datetime <= sleep_time)

\* The end of handle_wake_date / handle_wake_hour / handle_wake_minute once a
\* wake time is known: rejected back to WAKE_DATE, or stored and on to NOTES.
StoreWake(chat, wake_datetime) ==
    IF ~WakeAccepted(wake_datetime, chat_data[chat].sleep_time)
    THEN /\ sleepConv' = [sleepConv EXCEPT ![chat] = "WAKE_DATE"]
         /\ UNCHANGED chat_data
    ELSE /\ chat_data' = [chat_data EXCEPT ![chat].wake_time = wake_datetime]
         /\ sleepConv' = [sleepConv EXCEPT ![chat] = "NOTES"]

\* wakesleep.handle_wake_date; chat_data['sleep_time'] raises KeyError when
\* absent.
handle_wake_date(chat, data) ==
    /\ sleepConv[chat] = "WAKE_DATE"
    /\ CASE data = "now" ->
              /\ chat_data[chat].sleep_time # NoDate
              /\ StoreWake(chat, ServerNow)
         [] data = "other" ->
              /\ sleepConv' = [sleepConv EXCEPT ![chat] = "CUSTOM_WAKE_DATE"]
              /\ UNCHANGED chat_data
         [] OTHER ->
              /\ chat_data' = [chat_data EXCEPT
                                 ![chat].wake_date = parse_date_selection(data)]
              /\ sleepConv' = [sleepConv EXCEPT ![chat] = "WAKE_HOUR"]
    /\ UNCHANGED <<now, quietVars, wakesleeps>>

\* wakesleep.handle_custom_wake_date
handle_custom_wake_date(chat, text) ==
    /\ sleepConv[chat] = "CUSTOM_WAKE_DATE"
    /\ IF parse_custom_date(text) = NoDate
       THEN UNCHANGED <<chat_data, sleepConv>>
       ELSE /\ chat_data' = [chat_data EXCEPT
                               ![chat].wake_date = parse_custom_date(text)]
            /\ sleepConv' = [sleepConv EXCEPT ![chat] = "WAKE_HOUR"]
    /\ UNCHANGED <<now, quietVars, wakesleeps>>

\* wakesleep.handle_wake_hour
handle_wake_hour(chat, data) ==
    /\ sleepConv[chat] = "WAKE_HOUR"
    /\ IF data = "now"
       THEN /\ chat_data[chat].sleep_time # NoDate
            /\ StoreWake(chat, ServerNow)
       ELSE /\ sleepConv' = [sleepConv EXCEPT ![chat] = "WAKE_MINUTE"]
            /\ UNCHANGED chat_data
    /\ UNCHANGED <<now, quietVars, wakesleeps>>

\* wakesleep.handle_wake_minute
handle_wake_minute(chat, hm) ==
    /\ sleepConv[chat] = "WAKE_MINUTE"
    /\ chat_data[chat].wake_date # NoDate
    /\ chat_data[chat].sleep_time # NoDate
    /\ StoreWake(chat, combine_date_time(chat_data[chat].wake_date, hm))
    /\ UNCHANGED <<now, quietVars, wakesleeps>>

\* wakesleep.save_sleep_record, reached from handle_notes and skip_notes: the
\* row is inserted when the user exists and both times are in chat_data; the
\* chat data is cleared and the conversation ends in every case.
save_sleep_record(chat) ==
    LET user == get_user_by_chat_id(chat)
        cd == chat_data[chat]
    IN /\ wakesleeps' =
            IF user.id # 0 /\ cd.sleep_time # NoDate /\ cd.wake_time # NoDate
            THEN Append(wakesleeps, [user_id |-> user.id, sleeptime |-> cd.sleep_time,
                                     wakeuptime |-> cd.wake_time])
            ELSE wakesleeps
       /\ chat_data' = clear_chat_data(chat_data, chat)
       /\ sleepConv' = [sleepConv EXCEPT ![chat] = "END"]

\* wakesleep.handle_notes and wakesleep.skip_notes
handle_sleep_notes(chat) ==
    /\ sleepConv[chat] = "NOTES"
    /\ save_sleep_record(chat)
    /\ UNCHANGED <<now, quietVars>>

\* wakesleep.cancel (a fallback) and wakesleep.timeout
cancel_sleep(chat) ==
    /\ sleepConv[chat] # "END"
    /\ chat_data' = clear_chat_data(chat_data, chat)
    /\ sleepConv' = [sleepConv EXCEPT ![chat] = "END"]
    /\ UNCHANGED <<now, quietVars, wakesleeps>>

\* ------------------------------------------------------------ /water
\* Everything the /water conversation leaves alone but chat_data, the waters
\* table and its own state.
waterQuiet == <<now, season, serverOff, users, timezones, settings, jobs,
                sentCount, fireLog, reflections, tzConv, settingsConv, user_data,
                promptVars, rundownConv, rundownHist, rateVars, sleepVars>>

\* callback_data of WATER_AMOUNT_KEYBOARD, as WATER_AMOUNT_PATTERN admits them.
WATER_AMOUNTS == {250, 500, 750, 1000, 1500, 2000}

\* The rows of table waters among the activity rows.
WaterRows == SelectSeq(activities, LAMBDA r : r.kind = "water")

\* The buttons of DATE_KEYBOARD and HOUR_KEYBOARD pressed in the runs.
WaterDateButtons == {"today", "yday", "other"}
WaterHourButtons == {"6", "22"}

\* The state of the /water conversation of the chat becomes `state` after the
\* question of the state it is in was answered.
WaterAdvance(chat, state) ==
    /\ waterConv' = [waterConv EXCEPT ![chat] = state]
    /\ waterAnswered' = [waterAnswered EXCEPT ![chat] = Append(@, waterConv[chat])]

\* water.water, the entry point /water
water(chat) ==
    /\ waterConv[chat] = "END"
    /\ Len(WaterRows) < MaxWaterRows
    /\ IF get_user_with_timezone(chat).id = 0
       THEN UNCHANGED <<chat_data, waterConv, waterAnswered>>
       ELSE /\ chat_data' = [chat_data EXCEPT ![chat] = EmptyChatData]
            /\ waterConv' = [waterConv EXCEPT ![chat] = "DATE"]
            /\ waterAnswered' = [waterAnswered EXCEPT ![chat] = <<>>]
    /\ UNCHANGED <<waterQuiet, activities>>

\* water.handle_date; "other" ends the conversation and leaves chat_data.
handle_date(chat, data) ==
    /\ waterConv[chat] = "DATE"
    /\ IF data = "other"
       THEN /\ waterConv' = [waterConv EXCEPT ![chat] = "END"]
            /\ UNCHANGED <<chat_data, waterAnswered>>
       ELSE /\ chat_data' = [chat_data EXCEPT
                               ![chat].water_date = parse_date_selection(data)]
            /\ WaterAdvance(chat, "HOUR")
    /\ UNCHANGED <<waterQuiet, activities>>

\* water.handle_hour; chat_data['water_hour'] is written and never read.
handle_hour(chat, data) ==
    /\ waterConv[chat] = "HOUR"
    /\ WaterAdvance(chat, "MINUTE")
    /\ UNCHANGED <<waterQuiet, activities, chat_data>>

\* water.handle_minute; chat_data['water_date'] raises KeyError when the key
\* is absent and the update is dropped.
handle_minute(chat, hm) ==
    /\ waterConv[chat] = "MINUTE"
    /\ chat_data[chat].water_date # NoDate
    /\ chat_data' = [chat_data EXCEPT
                       ![chat].water_time = combine_date_time(chat_data[chat].water_date, hm)]
    /\ WaterAdvance(chat, "AMOUNT")
    /\ UNCHANGED <<waterQuiet, activities>>

\* water.handle_amount
handle_amount(chat, amount_ml) ==
    /\ waterConv[chat] = "AMOUNT"
    /\ chat_data' = [chat_data EXCEPT ![chat].water_amount = amount_ml]
    /\ WaterAdvance(chat, "NOTES")
    /\ UNCHANGED <<waterQuiet, activities>>

\* session.add and session.commit of a Water row: water_time and amount_ml
\* are NOT NULL columns, so the commit of a row without them raises.
WaterCommits(cd) == cd.water_time # NoDate /\ cd.water_amount # 0

\* water.save_water_record, reached from handle_notes and skip_notes: the row
\* is inserted when the user exists and the commit goes through; the chat data
\* is cleared and the conversation ends in every case.
save_water_record(chat) ==
    LET user == get_user_by_chat_id(chat)
        cd == chat_data[chat]
    IN /\ activities' =
            IF user.id # 0 /\ WaterCommits(cd)
            THEN Append(activities,
                        ActivityRow("water", user.id, cd.water_time \div MinutesPerDay,
                                    cd.water_amount))
            ELSE activities
       /\ chat_data' = clear_chat_data(chat_data, chat)
       /\ WaterAdvance(chat, "END")

\* water.handle_notes (a text) and water.skip_notes (/skip)
handle_notes(chat) ==
    /\ waterConv[chat] = "NOTES"
    /\ save_water_record(chat)
    /\ UNCHANGED waterQuiet

\* water.cancel (a fallback) and water.timeout
cancel_water(chat) ==
    /\ waterConv[chat] # "END"
    /\ chat_data' = clear_chat_data(chat_data, chat)
    /\ waterConv' = [waterConv EXCEPT ![chat] = "END"]
    /\ UNCHANGED <<waterQuiet, activities, waterAnswered>>

\* ------------------------------------------------------------ /register
\* Everything the /register conversation leaves alone but the users table,
\* user_data and its own state.
regQuiet == <<now, season, serverOff, timezones, settings, jobs, sentCount,
              fireLog, reflections, tzConv, settingsConv, chat_data, promptVars,
              rundownVars, rateVars, sleepVars, waterVars>>

\* The texts sent as a name: validators.validate_name takes 2 to 30 letters.
NameTexts == {"Ann", "A"}
validate_name(name) == name # "A"

\* The texts sent as an email address, whether EMAIL_REGEX matches them, and
\* str.lower() of them.
EmailTexts == {"a@x.io", "A@x.io", "b@x.io", "nope"}
EMAIL_REGEX(text) == text # "nope"
lower(text) == IF text = "A@x.io" THEN "a@x.io" ELSE text

\* User.get_by_email
get_by_email(email) ==
    IF \E r \in users : r.email_id = email
    THEN CHOOSE r \in users : r.email_id = email
    ELSE NoUser

\* The primary key the table gives the next row (autoincrement).
NextUserId == 1 + Cardinality(users)

\* session.add(user); session.commit(): chat_id and email_id are unique
\* columns, so the commit of a second row with either value raises.
UserCommits(row) ==
    \A r \in users : r.chat_id # row.chat_id /\ r.email_id # row.email_id

\* registration.register behind its rate_limit decorator; `limited` is the
\* decorator's decision, and a limited call returns without running the body.
register(chat, limited) ==
    /\ regConv[chat] = "END"
    /\ regConv' = IF ~limited /\ get_user_by_chat_id(chat).id = 0
                  THEN [regConv EXCEPT ![chat] = "NAME"]
                  ELSE regConv
    /\ regInput' = [chat |-> chat, text |-> "/register"]
    /\ UNCHANGED <<regQuiet, users, user_data>>

\* registration.handle_name
handle_name(chat, text) ==
    /\ regConv[chat] = "NAME"
    /\ IF validate_name(strip(text))
       THEN /\ user_data' = [user_data EXCEPT ![chat].name = strip(text),
                                              ![chat].chat_id = chat]
            /\ regConv' = [regConv EXCEPT ![chat] = "EMAIL"]
       ELSE UNCHANGED <<user_data, regConv>>
    /\ regInput' = [chat |-> chat, text |-> text]
    /\ UNCHANGED <<regQuiet, users>>

\* registration.save_user; user_data['chat_id'] and user_data['name'] raise
\* KeyError when the keys are absent, before the try block.
save_user(chat, email) ==
    LET ud == user_data[chat]
        row == [id |-> NextUserId, chat_id |-> ud.chat_id, email_id |-> email,
                created |-> ServerToday]
    IN /\ ud.chat_id # 0
       /\ users' = IF UserCommits(row) THEN users \cup {row} ELSE users
       /\ user_data' = clear_user_data(user_data, chat)
       /\ regConv' = [regConv EXCEPT ![chat] = "END"]

\* The check handle_email makes before it saves.
EmailInUse_Never(email) == FALSE

EmailInUse(email) == get_by_email(email).id # 0

\* registration.handle_email, for a text EMAIL_REGEX matches, and
\* registration.handle_invalid_email for any other text.
handle_email(chat, text) ==
    /\ regConv[chat] = "EMAIL"
    /\ IF EMAIL_REGEX(text)
       THEN IF EmailInUse(lower(strip(text)))
            THEN UNCHANGED <<users, user_data, regConv>>
            ELSE save_user(chat, lower(strip(text)))
       ELSE UNCHANGED <<users, user_data, regConv>>
    /\ regInput' = [chat |-> chat, text |-> text]
    /\ UNCHANGED regQuiet

\* registration.cancel (the fallbacks /cancel and /reg_cancel) and
\* registration.timeout
cancel_register(chat) ==
    /\ regConv[chat] # "END"
    /\ user_data' = clear_user_data(user_data, chat)
    /\ regConv' = [regConv EXCEPT ![chat] = "END"]
    /\ regInput' = [chat |-> chat, text |-> "/cancel"]
    /\ UNCHANGED <<regQuiet, users>>

\* ------------------------------------------------------------ saving with a failing session
\* The conversations that end by saving one record, one chat's worth of them.
LoggingConversations ==
    {"sleep", "water", "thought", "task", "prompt", "food", "gym", "yoga",
     "pranayam", "set_timezone", "register"}

\* Where a conversation keeps its answers: /set_timezone and /register in
\* user_data, the others in chat_data.
StoreOf(m) == IF m \in {"set_timezone", "register"} THEN "user_data" ELSE "chat_data"

\* The step of a save at which the session raises.
Faults == {"none", "add", "commit"}

NoSave ==
    [n |-> 0, conv |-> NoVal, fault |-> "none", rolled_back |-> FALSE,
     error_sent |-> FALSE, escaped |-> FALSE]

\* Everything the saving handlers leave alone.
saveQuiet == <<now, season, serverOff, users, timezones, settings, jobs, sentCount,
               fireLog, reflections, tzConv, settingsConv, user_data, chat_data,
               promptVars, rundownVars, rateVars, sleepVars, waterVars, regVars>>

\* The conversation's questions are answered up to the one whose handler saves.
start_logging(m) ==
    /\ \A k \in LoggingConversations : saveConv[k] = "END"
    /\ saveLog.n < MaxSaves
    /\ saveConv' = [saveConv EXCEPT ![m] = "SAVING"]
    /\ saveData' = [saveData EXCEPT ![StoreOf(m)] = TRUE]
    /\ UNCHANGED <<saveQuiet, saveRows, saveLog>>

\* /cancel of the conversation; food.cancelfood leaves chat_data as it is.
cancel_logging(m) ==
    /\ saveConv[m] = "SAVING"
    /\ saveConv' = [saveConv EXCEPT ![m] = "END"]
    /\ saveData' = IF m = "food" THEN saveData
                   ELSE [saveData EXCEPT ![StoreOf(m)] = FALSE]
    /\ UNCHANGED <<saveQuiet, saveRows, saveLog>>

\* try: session.add(record); session.commit(); reply
\* except Exception: session.rollback(); reply with the error
\* finally: clear the data -- and the handler returns END.
TryCommitFinally(m, fault) ==
    /\ saveConv[m] = "SAVING"
    /\ saveLog.n < MaxSaves
    /\ saveRows' = IF fault = "none" THEN [saveRows EXCEPT ![m] = @ + 1] ELSE saveRows
    /\ saveData' = [saveData EXCEPT ![StoreOf(m)] = FALSE]
    /\ saveConv' = [saveConv EXCEPT ![m] = "END"]
    /\ saveLog' = [n |-> saveLog.n + 1, conv |-> m, fault |-> fault,
                   rolled_back |-> fault # "none", error_sent |-> fault # "none",
                   escaped |-> FALSE]
    /\ UNCHANGED saveQuiet

\* try: session.add(record)
\* except: session.rollback(); clear the data; reply with the error
\* else: session.commit(); reply
\* then clear the data -- and the caller returns END.  An exception of
\* session.commit() is outside the try: it leaves the function and the handler
\* before the data is cleared, and the conversation keeps its state; the row
\* goes with the session the with block closes.
TryAddElseCommit(m, fault) ==
    /\ saveConv[m] = "SAVING"
    /\ saveLog.n < MaxSaves
    /\ saveRows' = IF fault = "none" THEN [saveRows EXCEPT ![m] = @ + 1] ELSE saveRows
    /\ saveData' = IF fault = "commit" THEN saveData
                   ELSE [saveData EXCEPT ![StoreOf(m)] = FALSE]
    /\ saveConv' = IF fault = "commit" THEN saveConv
                   ELSE [saveConv EXCEPT ![m] = "END"]
    /\ saveLog' = [n |-> saveLog.n + 1, conv |-> m, fault |-> fault,
                   rolled_back |-> fault = "add", error_sent |-> fault = "add",
                   escaped |-> fault = "commit"]
    /\ UNCHANGED saveQuiet

\* The try blocks of the saving functions.
save_sleep_record_try(fault) == TryCommitFinally("sleep", fault)
save_water_record_try(fault) == TryCommitFinally("water", fault)
save_thought_record(fault) == TryCommitFinally("thought", fault)
save_task_record(fault) == TryCommitFinally("task", fault)
save_prompt_try(fault) == TryCommitFinally("prompt", fault)
save_timezone_try(fault) == TryCommitFinally("set_timezone", fault)
save_user_try(fault) == TryCommitFinally("register", fault)
save_food_record(fault) == TryAddElseCommit("food", fault)
save_gym_record(fault) == TryAddElseCommit("gym", fault)
save_yoga_record(fault) == TryAddElseCommit("yoga", fault)
save_pranayam_record(fault) == TryAddElseCommit("pranayam", fault)

\* ------------------------------------------------------------ /goals
\* Everything the /goals conversation and the Goal methods leave alone.
goalQuiet == <<now, season, serverOff, users, timezones, settings, jobs, sentCount,
               fireLog, reflections, tzConv, settingsConv, user_data, promptVars,
               rundownVars, rateVars, sleepVars, waterVars, regVars, saveVars>>

\* Two of Goal.AREAS, the buttons of get_goals_keyboard for them, and
\* query.data[5:] of a button.
GoalAreas == {"sleep", "gym"}
GoalButtons == {"done", "goal_sleep", "goal_gym"}
AreaOfButton(data) == IF data = "goal_sleep" THEN "sleep" ELSE "gym"

\* The texts sent as a goal.
GoalTexts == {"Sleep by 10 PM", "7 hours", " "}

NoGoal == [id |-> 0, user_id |-> 0, area |-> NoVal, goal_text |-> NoVal]
NoGoalCall ==
    [n |-> 0, op |-> NoVal, user_id |-> 0, area |-> NoVal, goal_text |-> NoVal,
     result |-> FALSE]

\* Goal.get_by_user_and_area on the rows: .first() of the filtered query.
get_by_user_and_area(rows, uid, area) ==
    LET found == SelectSeq(rows, LAMBDA g : g.user_id = uid /\ g.area = area)
    IN IF found = <<>> THEN NoGoal ELSE found[1]

\* uq_user_goal_area: the commit of two rows with one user_id and area raises.
GoalCommits(rows) ==
    \A i, j \in 1 .. Len(rows) :
        (rows[i].user_id = rows[j].user_id /\ rows[i].area = rows[j].area) => i = j

\* Goal.set_goal on the session's rows; `id` is the key a new row gets.
set_goal_AlwaysInsert(rows, uid, area, goal_text, id) ==
    Append(rows, [id |-> id, user_id |-> uid, area |-> area, goal_text |-> goal_text])

set_goal(rows, uid, area, goal_text, id) ==
    IF get_by_user_and_area(rows, uid, area).id # 0
    THEN [k \in 1 .. Len(rows) |->
             IF rows[k].id = get_by_user_and_area(rows, uid, area).id
             THEN [rows[k] EXCEPT !.goal_text = goal_text]
             ELSE rows[k]]
    ELSE Append(rows, [id |-> id, user_id |-> uid, area |-> area, goal_text |-> goal_text])

\* goals.goals_command, the entry point /goals
goals_command(chat) ==
    /\ goalsConv[chat] = "END"
    /\ IF get_user_by_chat_id(chat).id = 0
       THEN UNCHANGED <<chat_data, goalsConv>>
       ELSE /\ chat_data' = [chat_data EXCEPT ![chat] = EmptyChatData]
            /\ goalsConv' = [goalsConv EXCEPT ![chat] = "VIEW_GOALS"]
    /\ UNCHANGED <<goalQuiet, goals, goalLog>>

\* goals.handle_goal_selection
handle_goal_selection(chat, data) ==
    /\ goalsConv[chat] = "VIEW_GOALS"
    /\ IF data = "done"
       THEN /\ chat_data' = clear_chat_data(chat_data, chat)
            /\ goalsConv' = [goalsConv EXCEPT ![chat] = "END"]
       ELSE /\ chat_data' = [chat_data EXCEPT ![chat].editing_area = AreaOfButton(data)]
            /\ goalsConv' = [goalsConv EXCEPT ![chat] = "ENTER_GOAL"]
    /\ UNCHANGED <<goalQuiet, goals, goalLog>>

\* goals.handle_goal_input: Goal.set_goal and session.commit() in one try, the
\* rollback in its except branch.
handle_goal_input(chat, text) ==
    LET area == chat_data[chat].editing_area
        user == get_user_by_chat_id(chat)
        after == set_goal(goals, user.id, area, strip(text), goalLog.n + 1)
    IN /\ goalsConv[chat] = "ENTER_GOAL"
       /\ goalLog.n < MaxGoalOps
       /\ IF area = NoVal \/ (strip(text) # "" /\ user.id = 0)
          THEN /\ chat_data' = clear_chat_data(chat_data, chat)
               /\ goalsConv' = [goalsConv EXCEPT ![chat] = "END"]
               /\ UNCHANGED <<goals, goalLog>>
          ELSE IF strip(text) = ""
               THEN UNCHANGED <<chat_data, goalsConv, goals, goalLog>>
               ELSE /\ goals' = IF GoalCommits(after) THEN after ELSE goals
                    /\ goalLog' = [n |-> goalLog.n + 1, op |-> "set_goal",
                                   user_id |-> user.id, area |-> area,
                                   goal_text |-> strip(text), result |-> TRUE]
                    /\ chat_data' = [chat_data EXCEPT ![chat].editing_area = NoVal]
                    /\ goalsConv' = [goalsConv EXCEPT ![chat] = "VIEW_GOALS"]
       /\ UNCHANGED goalQuiet

\* goals.cancel_goals (a fallback) and goals.timeout_goals
cancel_goals(chat) ==
    /\ goalsConv[chat] # "END"
    /\ chat_data' = clear_chat_data(chat_data, chat)
    /\ goalsConv' = [goalsConv EXCEPT ![chat] = "END"]
    /\ UNCHANGED <<goalQuiet, goals, goalLog>>

\* Goal.delete_goal in a session that is then committed; `result` is what the
\* method returns.
delete_goal(uid, area) ==
    LET existing == get_by_user_and_area(goals, uid, area)
    IN /\ goalLog.n < MaxGoalOps
       /\ goals' = IF existing.id # 0
                   THEN SelectSeq(goals, LAMBDA g : g.id # existing.id)
                   ELSE goals
       /\ goalLog' = [n |-> goalLog.n + 1, op |-> "delete_goal", user_id |-> uid,
                      area |-> area, goal_text |-> NoVal, result |-> existing.id # 0]
       /\ UNCHANGED <<goalQuiet, chat_data, goalsConv>>

\* ------------------------------------------------------------ transaction()
\* The two context managers; their bodies are the same statements.
ContextManagers == {"transaction", "get_db_session"}

\* How the body of a with block and a call of session.commit() can end: by
\* returning, by an exception of class Exception, or by one outside it
\* (KeyboardInterrupt, SystemExit, asyncio.CancelledError).
BodyOutcomes == {"returns", "Exception", "BaseException"}
CommitOutcomes == {"returns", "Exception"}

\* No with block is open.
NoTxn ==
    [pc |-> "idle", cm |-> NoVal, body |-> NoVal, commit |-> NoVal, calls |-> <<>>,
     pending |-> "none"]

\* session = Session(); try: yield session
enter_transaction(cm) ==
    /\ txn.pc = "idle"
    /\ Len(txnLog) < MaxTxns
    /\ txn' = [NoTxn EXCEPT !.pc = "body", !.cm = cm]
    /\ UNCHANGED <<botVars, viewVars, thoughtVars, txnLog, decoVars, itemVars>>

\* Whether the clause `except Exception` takes an exception of the kind.
Caught_Nothing(kind) == FALSE

Caught(kind) == kind = "Exception"

\* Where control goes when the try block raises an exception of the kind.
AfterRaise(kind) ==
    [txn EXCEPT !.pc = IF Caught(kind) THEN "except" ELSE "finally", !.pending = kind]

\* The body of the with block ends.
body_ends(outcome) ==
    /\ txn.pc = "body"
    /\ txn' = IF outcome = "returns"
              THEN [txn EXCEPT !.pc = "commit", !.body = outcome]
              ELSE [AfterRaise(outcome) EXCEPT !.body = outcome]
    /\ UNCHANGED <<botVars, viewVars, thoughtVars, txnLog, decoVars, itemVars>>

\* session.commit() after the yield
commit_session(outcome) ==
    /\ txn.pc = "commit"
    /\ txn' = [(IF outcome = "returns" THEN [txn EXCEPT !.pc = "finally"]
                ELSE AfterRaise(outcome))
               EXCEPT !.commit = outcome, !.calls = Append(txn.calls, "commit")]
    /\ UNCHANGED <<botVars, viewVars, thoughtVars, txnLog, decoVars, itemVars>>

\* except Exception: session.rollback(); raise
rollback_and_raise ==
    /\ txn.pc = "except"
    /\ txn' = [txn EXCEPT !.pc = "finally", !.calls = Append(@, "rollback")]
    /\ UNCHANGED <<botVars, viewVars, thoughtVars, txnLog, decoVars, itemVars>>

\* finally: session.close(); the pending exception then reaches the caller.
close_session ==
    /\ txn.pc = "finally"
    /\ txnLog' = Append(txnLog, [cm |-> txn.cm, body |-> txn.body, commit |-> txn.commit,
                                 calls |-> Append(txn.calls, "close"),
                                 raised |-> txn.pending])
    /\ txn' = NoTxn
    /\ UNCHANGED <<botVars, viewVars, thoughtVars, decoVars, itemVars>>

\* ------------------------------------------------------------ require_user, require_timezone
\* return_state=None, the default of both decorators.
NoState == -99

\* The return_state arguments of the runs: None, state 0 and
\* ConversationHandler.END.
ReturnStates == {NoState, 0, -1}

\* What the wrapped handler body returns when it runs.
HandlerReturn == 1

NoWrapperCall ==
    [decorator |-> NoVal, chat |-> 0, return_state |-> NoState, body_ran |-> FALSE,
     message |-> "none", returned |-> NoState]

\* The wrapper has sent `message` instead of running the body.
Refused(decorator, chat, return_state, message) ==
    [decorator |-> decorator, chat |-> chat, return_state |-> return_state,
     body_ran |-> FALSE, message |-> message,
     returned |-> IF return_state # NoState THEN return_state ELSE NoState]

\* return await func(update, context, *args, **kwargs)
BodyRun(decorator, chat, return_state) ==
    [decorator |-> decorator, chat |-> chat, return_state |-> return_state,
     body_ran |-> TRUE, message |-> "none", returned |-> HandlerReturn]

\* decorators.require_user.<locals>.decorator.<locals>.wrapper, for an update
\* of the chat
require_user(chat, return_state) ==
    /\ decoLog' = IF get_user_by_chat_id(chat).id = 0
                  THEN Refused("require_user", chat, return_state, "register")
                  ELSE BodyRun("require_user", chat, return_state)
    /\ UNCHANGED <<botVars, viewVars, thoughtVars, txnVars, itemVars>>

\* decorators.require_timezone.<locals>.decorator.<locals>.wrapper
require_timezone_NoCount(chat, return_state) ==
    /\ decoLog' = IF get_user_by_chat_id(chat).id = 0
                  THEN Refused("require_timezone", chat, return_state, "register")
                  ELSE BodyRun("require_timezone", chat, return_state)
    /\ UNCHANGED <<botVars, viewVars, thoughtVars, txnVars, itemVars>>

require_timezone(chat, return_state) ==
    LET user == get_user_by_chat_id(chat)
    IN /\ decoLog' = IF user.id = 0
                     THEN Refused("require_timezone", chat, return_state, "register")
                     ELSE IF Len(timezones[user.id]) = 0
                          THEN Refused("require_timezone", chat, return_state,
                                       "set_timezone")
                          ELSE BodyRun("require_timezone", chat, return_state)
       /\ UNCHANGED <<botVars, viewVars, thoughtVars, txnVars, itemVars>>

\* ------------------------------------------------------------ join_items, split_items
\* A text is the sequence of its characters; the texts here are written with
\* a letter and the comma.
ItemChars == {"a", ","}

\* formatters.ITEM_SEPARATOR
ITEM_SEPARATOR == <<",", ",", ",">>

\* The texts a user can send as an item: text.strip() is not empty.
ItemInputs ==
    UNION {[1 .. n -> ItemChars] : n \in 1 .. MaxItemLen}

\* ITEM_SEPARATOR.join(items[k..])
RECURSIVE JoinFrom(_, _)
JoinFrom(items, k) ==
    IF k = Len(items) THEN items[k]
    ELSE items[k] \o ITEM_SEPARATOR \o JoinFrom(items, k + 1)

\* formatters.join_items
join_items(items) == IF items = <<>> THEN <<>> ELSE JoinFrom(items, 1)

\* str.find(ITEM_SEPARATOR): the first position the separator starts at, 0
\* when there is none.
FindSeparator(text) ==
    LET hits == {i \in 1 .. Len(text) - Len(ITEM_SEPARATOR) + 1 :
                    SubSeq(text, i, i + Len(ITEM_SEPARATOR) - 1) = ITEM_SEPARATOR}
    IN IF hits = {} THEN 0 ELSE MinOf(hits)

\* str.split(ITEM_SEPARATOR): cut at each separator found from the left.
RECURSIVE Split(_)
Split(text) ==
    LET i == FindSeparator(text)
    IN IF i = 0 THEN <<text>>
       ELSE <<SubSeq(text, 1, i - 1)>>
            \o Split(SubSeq(text, i + Len(ITEM_SEPARATOR), Len(text)))

\* formatters.split_items
split_items(stored) == IF stored = <<>> THEN <<>> ELSE Split(stored)

\* dailyprompts.handle_item: the user sends one more item text.
enter_item(text) ==
    /\ itemsPhase = "entered"
    /\ Len(itemsEntered) < MaxItems
    /\ itemsEntered' = Append(itemsEntered, text)
    /\ UNCHANGED <<botVars, viewVars, thoughtVars, txnVars, decoVars, itemsPhase, itemsStored, itemsShown>>

\* content = join_items(items) of dailyprompts.save_prompt
store_items ==
    /\ itemsPhase = "entered"
    /\ itemsEntered # <<>>
    /\ itemsStored' = join_items(itemsEntered)
    /\ itemsPhase' = "stored"
    /\ UNCHANGED <<botVars, viewVars, thoughtVars, txnVars, decoVars, itemsEntered, itemsShown>>

\* items = split_items(stored) of formatters.display_items
show_items ==
    /\ itemsPhase = "stored"
    /\ itemsShown' = split_items(itemsStored)
    /\ itemsPhase' = "shown"
    /\ UNCHANGED <<botVars, viewVars, thoughtVars, txnVars, decoVars, itemsEntered, itemsStored>>

\* ------------------------------------------------------------ /thought
\* Everything the /thought conversation leaves alone but chat_data, the
\* activity tables and its own state.
thoughtQuiet == <<waterQuiet, waterVars, regVars, saveVars, goalVars, txnVars,
                  decoVars, itemVars, viewVars>>

MAX_LENGTH == 2000

\* The texts sent to /thought, and len(text) of each.
ThoughtTexts == {"walk", "essay"}
TextLen(text) == IF text = "essay" THEN MAX_LENGTH + 1 ELSE 4

\* thought.thought, the entry point /thought
thought(chat) ==
    /\ thoughtConv[chat] = "END"
    /\ Len(thoughtRows) < MaxThoughtRows
    /\ IF get_user_by_chat_id(chat).id = 0
       THEN UNCHANGED <<chat_data, thoughtConv, thoughtGiven>>
       ELSE /\ chat_data' = [chat_data EXCEPT ![chat] = EmptyChatData]
            /\ thoughtConv' = [thoughtConv EXCEPT ![chat] = "WRITING"]
            /\ thoughtGiven' = [thoughtGiven EXCEPT ![chat] = <<>>]
    /\ UNCHANGED <<thoughtQuiet, activities, thoughtRows>>

\* thought.handle_thought
handle_thought(chat, text) ==
    /\ thoughtConv[chat] = "WRITING"
    /\ Len(thoughtGiven[chat]) < MaxThoughts
    /\ IF TextLen(strip(text)) > MAX_LENGTH
       THEN UNCHANGED <<chat_data, thoughtGiven>>
       ELSE /\ chat_data' = [chat_data EXCEPT ![chat].thoughts = Append(@, strip(text))]
            /\ thoughtGiven' = [thoughtGiven EXCEPT ![chat] = Append(@, strip(text))]
    /\ UNCHANGED <<thoughtQuiet, activities, thoughtConv, thoughtRows>>

\* thought.save_thought_record: the content is the list join_items joins; the
\* row is stamped with the server's datetime.now().
save_thought(chat) ==
    LET user == get_user_by_chat_id(chat)
    IN /\ IF user.id = 0
          THEN UNCHANGED <<activities, thoughtRows>>
          ELSE /\ activities' = Append(activities,
                                       ActivityRow("thought", user.id, ServerToday, 0))
               /\ thoughtRows' = Append(thoughtRows,
                                        [user_id |-> user.id,
                                         content |-> chat_data[chat].thoughts,
                                         given |-> thoughtGiven[chat]])
       /\ chat_data' = clear_chat_data(chat_data, chat)
       /\ thoughtConv' = [thoughtConv EXCEPT ![chat] = "END"]
       /\ UNCHANGED thoughtGiven

\* thought.done_thought, /done in state WRITING
done_thought(chat) ==
    /\ thoughtConv[chat] = "WRITING"
    /\ IF chat_data[chat].thoughts = <<>>
       THEN UNCHANGED <<chat_data, activities, thoughtVars>>
       ELSE save_thought(chat)
    /\ UNCHANGED thoughtQuiet

\* thought.cancel (a fallback) and thought.timeout
cancel_thought(chat) ==
    /\ thoughtConv[chat] = "WRITING"
    /\ chat_data' = clear_chat_data(chat_data, chat)
    /\ thoughtConv' = [thoughtConv EXCEPT ![chat] = "END"]
    /\ UNCHANGED <<thoughtQuiet, activities, thoughtGiven, thoughtRows>>

\* ------------------------------------------------------------ /myday
NoMyday == [n |-> 0, user_id |-> 0, today |-> NoDate, sections |-> {}]

\* The queries of myday.myday: whether the section of `item` is appended for
\* the user on `today`.  A daily reflection is shown when get_for_date finds a
\* row; every activity, water included, when the query for its rows of the day
\* returns any.
MydayShows(item, uid, today) ==
    IF item \in PROMPT_MODELS THEN exists_for_date(item, uid, today)
    ELSE \E k \in 1 .. Len(activities) :
            /\ activities[k].kind = item
            /\ activities[k].user_id = uid
            /\ activities[k].date = today

\* myday.myday, the command /myday: the sections of the summary it sends.  The
\* field n of the log alternates, so that every call changes the log.
myday(chat) ==
    LET user == get_user_by_chat_id(chat)
        today == get_user_local_date(user.id)
    IN /\ user.id # 0
       /\ mydayLog' = [n |-> 1 - mydayLog.n, user_id |-> user.id, today |-> today,
                       sections |-> {RUNDOWN_ORDER[i] : i \in
                                        {k \in 1 .. Len(RUNDOWN_ORDER) :
                                            MydayShows(RUNDOWN_ORDER[k], user.id, today)}}]
       /\ UNCHANGED <<botVars, txnVars, decoVars, itemVars, thoughtVars>>

\* ------------------------------------------------------------ scheduler runs
UserRow(u) == [id |-> u, chat_id |-> ChatOf(u), email_id |-> NoVal, created |-> 0]

\* A timezones row as /set_timezone stores it on day `day`, effective that day.
StoredTimezone(zone, day) ==
    [timezone_name |-> zone, timezone_offset |-> TIMEZONE_DATA(zone),
     effective_from |-> day]

\* Empty settings, job queue, conversations and in-memory stores.
InitTables ==
    /\ settings = <<>>
    /\ jobs = <<>>
    /\ sentCount = [k \in Chats \X PromptTypes |-> [day |-> NoDate, n |-> 0]]
    /\ fireLog = {}
    /\ tzConv = [c \in Chats |-> "END"]
    /\ settingsConv = [c \in Chats |-> "END"]
    /\ user_data = [c \in Chats |-> EmptyUserData]
    /\ chat_data = [c \in Chats |-> EmptyChatData]
    /\ promptConv = [c \in Chats |-> [t \in PromptTypes |-> "END"]]
    /\ remindReply = [c \in Chats |-> 0]
    /\ rundownConv = [c \in Chats |-> "END"]
    /\ rundownHist = [c \in Chats |-> NoRundown]
    /\ rate_limit_store = [u \in UserIds |-> <<>>]
    /\ rateClock = 0
    /\ bodyRuns = [u \in UserIds \cup {0} |-> <<>>]
    /\ sleepConv = [c \in Chats |-> "END"]
    /\ wakesleeps = <<>>
    /\ waterConv = [c \in Chats |-> "END"]
    /\ waterAnswered = [c \in Chats |-> <<>>]
    /\ regConv = [c \in Chats |-> "END"]
    /\ regInput = [chat |-> 0, text |-> NoVal]
    /\ saveConv = [m \in LoggingConversations |-> "END"]
    /\ saveData = [chat_data |-> FALSE, user_data |-> FALSE]
    /\ saveRows = [m \in LoggingConversations |-> 0]
    /\ saveLog = NoSave
    /\ goals = <<>>
    /\ goalsConv = [c \in Chats |-> "END"]
    /\ goalLog = NoGoalCall
    /\ txn = NoTxn
    /\ txnLog = <<>>
    /\ decoLog = NoWrapperCall
    /\ itemsPhase = "entered"
    /\ itemsEntered = <<>>
    /\ itemsStored = <<>>
    /\ itemsShown = <<>>
    /\ mydayLog = NoMyday
    /\ thoughtConv = [c \in Chats |-> "END"]
    /\ thoughtGiven = [c \in Chats |-> <<>>]
    /\ thoughtRows = <<>>

\* The state the runs below start from, but for the users and their timezones.
InitMemory ==
    /\ now = StartMinute
    /\ InitTables

\* A server on UTC, empty activity and reflection tables.
InitRest ==
    /\ serverOff = 0
    /\ reflections = <<>>
    /\ activities = <<>>
    /\ InitMemory

\* The settings buttons the user of this run presses.
EditButtons ==
    {d \in SettingsButtons :
        /\ d.ptype \in {"gratitude", "selflove", NoVal}}

\* /settings against the running scheduler: one registered user who has set a
\* timezone the day before; no prompt job has been scheduled yet.
InitSettings ==
    /\ season = "winter"
    /\ users = {UserRow(1)}
    /\ timezones = [u \in UserIds |->
                      IF u = 1 THEN <<StoredTimezone("Asia/Kolkata", StartDay - 1)>>
                      ELSE <<>>]
    /\ InitRest

NextSettings ==
    /\ UNCHANGED laterVars
    /\    \/ Tick
          \/ \E i \in 1 .. Len(jobs) : send_daily_prompt(i)
          \/ ScheduleAllUsers
          \/ \E c \in Chats : start_settings(c)
          \/ \E c \in Chats, d \in EditButtons : handle_setting_selection(c, d)
          \/ \E c \in Chats, t \in TimeInputs : handle_time_input(c, t)
          \/ \E c \in Chats : cancel_settings(c)
          \/ \E c \in Chats : timeout_settings(c)

SpecSettings == InitSettings /\ [][NextSettings]_vars

\* /set_timezone against the running scheduler: one registered user without a
\* timezone, an empty job queue.
InitTimezone ==
    /\ InitRest
    /\ season = "winter"
    /\ users = {UserRow(1)}
    /\ timezones = [u \in UserIds |-> <<>>]

NextTimezone ==
    /\ UNCHANGED laterVars
    /\    \/ Tick
          \/ \E i \in 1 .. Len(jobs) : send_daily_prompt(i)
          \/ ScheduleAllUsers
          \/ \E c \in Chats : set_timezone(c)
          \/ \E c \in Chats, t \in CountryInputs : handle_country(c, t)
          \/ \E c \in Chats, z \in ZoneInputs : handle_timezone_selection(c, z)
          \/ \E c \in Chats, e \in EffectiveInputs : handle_effective_from(c, e)
          \/ \E c \in Chats : cancel_timezone(c)
          \/ \E c \in Chats : timeout_timezone(c)

SpecTimezone == InitTimezone /\ [][NextTimezone]_vars

\* The send times of the daily jobs: two registered users, each with one stored
\* timezone of TIMEZONE_DATA, in either season; the bot starts and runs.
InitSendTime ==
    /\ season \in Seasons
    /\ users = {UserRow(u) : u \in UserIds}
    /\ timezones \in [UserIds -> {<<StoredTimezone(z, StartDay - 1)>> : z \in TimezoneNames}]
    /\ InitRest

NextSendTime ==
    /\ UNCHANGED laterVars
    /\    \/ Tick
          \/ \E i \in 1 .. Len(jobs) : send_daily_prompt(i)
          \/ ScheduleAllUsers

SpecSendTime == InitSendTime /\ [][NextSendTime]_vars

\* One registered user in Asia/Kolkata, whose timezone was stored the day
\* before.
InitOneUser ==
    /\ season = "winter"
    /\ users = {UserRow(1)}
    /\ timezones = [u \in UserIds |->
                      IF u = 1 THEN <<StoredTimezone("Asia/Kolkata", StartDay - 1)>>
                      ELSE <<>>]
    /\ InitRest

\* The daily prompt jobs against the answers given: the bot runs, the user
\* answers the affirmation prompt in conversation and leaves the other three
\* unanswered, a user row may be removed.
AnsweredPrompts == {"affirmation"}

NextPrompts ==
    /\ UNCHANGED laterVars
    /\    \/ Tick
          \/ \E i \in 1 .. Len(jobs) : send_daily_prompt(i)
          \/ ScheduleAllUsers
          \/ \E c \in Chats, t \in AnsweredPrompts : start_prompt(c, t)
          \/ \E c \in Chats, t \in AnsweredPrompts, x \in ItemTexts : handle_item(c, t, x)
          \/ \E c \in Chats, t \in AnsweredPrompts : done_items(c, t)
          \/ \E c \in Chats, t \in AnsweredPrompts : cancel_prompt(c, t)
          \/ \E u \in users : UserRowRemoved(u)

SpecPrompts == InitOneUser /\ [][NextPrompts]_vars

\* The theme of the day and its reminders: the user sets the theme at some
\* time of the day, and turns the theme reminders off and on in /settings.
ThemeButtons ==
    {d \in SettingsButtons : d.op \in {"toggle_theme_reminders", "settings_done"}}

NextTheme ==
    /\ UNCHANGED laterVars
    /\    \/ Tick
          \/ \E i \in 1 .. Len(jobs) : send_theme_reminder(i)
          \/ \E c \in Chats : start_prompt(c, "themeoftheday")
          \/ \E c \in Chats, x \in ItemTexts : handle_item(c, "themeoftheday", x)
          \/ \E c \in Chats : timeout_prompt(c, "themeoftheday")
          \/ \E c \in Chats : start_settings(c)
          \/ \E c \in Chats, d \in ThemeButtons : handle_setting_selection(c, d)

InitTheme ==
    /\ season = "winter"
    /\ users = {UserRow(1)}
    /\ \E z \in {"Asia/Kolkata", "Europe/London"} :
          timezones = [u \in UserIds |->
                         IF u = 1 THEN <<StoredTimezone(z, StartDay - 1)>> ELSE <<>>]
    /\ InitRest

SpecTheme == InitTheme /\ [][NextTheme]_vars

\* The four prompt conversations of one chat within one minute, in any
\* interleaving of their commands and texts.
NextCollect ==
    /\ UNCHANGED laterVars
    /\    \/ \E c \in Chats, t \in PromptTypes : start_prompt(c, t)
          \/ \E c \in Chats, t \in PromptTypes, x \in ItemTexts : handle_item(c, t, x)
          \/ \E c \in Chats, t \in PromptTypes : done_items(c, t)
          \/ \E c \in Chats, t \in PromptTypes : skip_prompt(c, t)
          \/ \E c \in Chats, t \in PromptTypes : cancel_prompt(c, t)
          \/ \E c \in Chats, t \in PromptTypes : timeout_prompt(c, t)

SpecCollect == InitOneUser /\ [][NextCollect]_vars

\* /rundown for one registered user, in Asia/Kolkata or Pacific/Honolulu, on a
\* server that runs on UTC or on Indian time.  The user's day has the items of
\* one of these groups not yet logged and every other item logged.
MissingAtStart ==
    {{"sleep", "water", "thought"}, {"task", "gratitude", "themeoftheday"},
     {"food", "gym", "affirmation"}, {"yoga", "pranayam", "selflove"}}

\* The rows that log every item outside `missing` for the user on `today`.
RowsAtStart(missing, uid, today) ==
    [activities |->
        SelectSeq([i \in 1 .. Len(RUNDOWN_ORDER) |->
                      ActivityRow(RUNDOWN_ORDER[i], uid, today, 250)],
                  LAMBDA r : r.kind \notin missing \cup PROMPT_MODELS),
     reflections |->
        SelectSeq([i \in 1 .. Len(RUNDOWN_ORDER) |->
                      [ptype |-> RUNDOWN_ORDER[i], user_id |-> uid,
                       prompt_date |-> today, content |-> <<"walk">>,
                       reminder_count |-> 0]],
                  LAMBDA r : r.ptype \in PROMPT_MODELS \ missing)]

\* The button data and the texts of the run.
ContinueButtons == {"start_filling", "skip_rundown"}
RundownTexts == {"500ml", "lots", " "}

InitRundown ==
    /\ season = "winter"
    /\ users = {UserRow(1)}
    /\ \E z \in {"Asia/Kolkata", "Pacific/Honolulu"} :
          timezones = [u \in UserIds |->
                         IF u = 1 THEN <<StoredTimezone(z, StartDay - 1)>> ELSE <<>>]
    /\ serverOff \in {0, 5 * 60 + 30}
    /\ now = StartMinute
    /\ \E missing \in MissingAtStart :
          /\ activities = RowsAtStart(missing, 1, get_user_local_date(1)).activities
          /\ reflections = RowsAtStart(missing, 1, get_user_local_date(1)).reflections
    /\ InitMemory

NextRundown ==
    /\ UNCHANGED laterVars
    /\    \/ \E c \in Chats : rundown(c)
          \/ \E c \in Chats, d \in ContinueButtons : handle_continue_choice(c, d)
          \/ \E c \in Chats, x \in RundownTexts : handle_item_input(c, x)
          \/ \E c \in Chats : handle_done_command(c)
          \/ \E c \in Chats : skip_current_item(c)
          \/ \E c \in Chats : skip_fallback(c)
          \/ \E c \in Chats : cancel_rundown(c)
          \/ \E c \in Chats : timeout_rundown(c)

SpecRundown == InitRundown /\ [][NextRundown]_vars

\* The prompt conversations and /rundown of the chat of one user against each
\* other, within one minute: the user has logged everything for the day but
\* the gratitude and the theme of the day.  A text or /done reaches whichever
\* open conversation is registered first; both orders are taken.
InterleavedPrompts == {"gratitude", "themeoftheday"}

InitInterleave ==
    /\ season = "winter"
    /\ users = {UserRow(1)}
    /\ timezones = [u \in UserIds |->
                      IF u = 1 THEN <<StoredTimezone("Asia/Kolkata", StartDay - 1)>>
                      ELSE <<>>]
    /\ serverOff = 0
    /\ now = StartMinute
    /\ activities = RowsAtStart(InterleavedPrompts, 1, get_user_local_date(1)).activities
    /\ reflections = RowsAtStart(InterleavedPrompts, 1, get_user_local_date(1)).reflections
    /\ InitMemory

NextInterleave ==
    /\ UNCHANGED laterVars
    /\    \/ \E t \in InterleavedPrompts : start_prompt(ChatOf(1), t)
          \/ \E t \in InterleavedPrompts, x \in ItemTexts : handle_item(ChatOf(1), t, x)
          \/ \E t \in InterleavedPrompts : done_items(ChatOf(1), t)
          \/ \E t \in InterleavedPrompts : cancel_prompt(ChatOf(1), t)
          \/ rundown(ChatOf(1))
          \/ \E d \in ContinueButtons : handle_continue_choice(ChatOf(1), d)
          \/ \E x \in ItemTexts : handle_item_input(ChatOf(1), x)
          \/ handle_done_command(ChatOf(1))
          \/ skip_current_item(ChatOf(1))
          \/ cancel_rundown(ChatOf(1))

SpecInterleave == InitInterleave /\ [][NextInterleave]_vars

\* /myday against /rundown, /water and /themeoftheday: one user in
\* Asia/Kolkata who has logged everything for the day but water and the theme
\* fills items in /rundown, logs water with /water, sets the theme, and asks
\* for the summary at any moment.
MydayMissing == {"water", "themeoftheday"}
MydayTexts == {"500ml", "-500ml"}
MydayAmounts == {250, 500}

InitMyday ==
    /\ season = "winter"
    /\ users = {UserRow(1)}
    /\ timezones = [u \in UserIds |->
                      IF u = 1 THEN <<StoredTimezone("Asia/Kolkata", StartDay - 1)>>
                      ELSE <<>>]
    /\ serverOff = 0
    /\ now = StartMinute
    /\ activities = RowsAtStart(MydayMissing, 1, get_user_local_date(1)).activities
    /\ reflections = RowsAtStart(MydayMissing, 1, get_user_local_date(1)).reflections
    /\ InitMemory

NextMyday ==
    \/ /\ UNCHANGED laterVars
       /\    \/ rundown(ChatOf(1))
             \/ handle_continue_choice(ChatOf(1), "start_filling")
             \/ \E x \in MydayTexts : handle_item_input(ChatOf(1), x)
             \/ skip_current_item(ChatOf(1))
             \/ start_prompt(ChatOf(1), "themeoftheday")
             \/ handle_item(ChatOf(1), "themeoftheday", "walk")
    \/ /\ UNCHANGED afterWaterVars
       /\    \/ water(ChatOf(1))
             \/ handle_date(ChatOf(1), "today")
             \/ handle_hour(ChatOf(1), "6")
             \/ handle_minute(ChatOf(1), <<6, 0>>)
             \/ \E a \in MydayAmounts : handle_amount(ChatOf(1), a)
             \/ handle_notes(ChatOf(1))
    \/ myday(ChatOf(1))

SpecMyday == InitMyday /\ [][NextMyday]_vars

\* /thought against the other commands of the chat: while the user of the
\* first chat writes thoughts, /rundown and /water are started, and left again
\* by "Skip for now" and by the timeout.  Neither takes a text or /done in the
\* state it is left in, so every text and /done reaches /thought.
NextThought ==
    \/ /\ UNCHANGED laterVars
       /\    \/ rundown(ChatOf(1))
             \/ handle_continue_choice(ChatOf(1), "skip_rundown")
    \/ /\ UNCHANGED afterWaterVars
       /\    \/ water(ChatOf(1))
             \/ cancel_water(ChatOf(1))
    \/ thought(ChatOf(1))
    \/ \E x \in ThoughtTexts : handle_thought(ChatOf(1), x)
    \/ done_thought(ChatOf(1))
    \/ cancel_thought(ChatOf(1))

SpecThought == InitOneUser /\ [][NextThought]_vars

\* The rate limiter under the calls of one user and of updates without a user.
RateCallers == {0, 1}

NextRate ==
    /\ UNCHANGED laterVars
    /\    \/ RateTick
          \/ \E u \in RateCallers, d \in Decorations : wrapper(u, d)

SpecRate == InitOneUser /\ [][NextRate]_vars

\* ------------------------------------------------------------ /sleep runs
\* The /sleep conversation of one registered user with a timezone, the clock
\* running, and the affirmation conversation of the same chat, which clears
\* the chat data it shares with /sleep.
NextSleep ==
    \/ /\ UNCHANGED laterVars
       /\    \/ Tick
             \/ \E c \in Chats : start_prompt(c, "affirmation")
    \/ /\ UNCHANGED afterSleepVars
       /\    \/ \E c \in Chats : sleep(c)
             \/ \E c \in Chats, d \in DateButtons : handle_sleep_date(c, d)
             \/ \E c \in Chats, t \in CustomDateTexts : handle_custom_sleep_date(c, t)
             \/ \E c \in Chats, h \in HourButtons : handle_sleep_hour(c, h)
             \/ \E c \in Chats, m \in MinuteButtons : handle_sleep_minute(c, m)
             \/ \E c \in Chats, d \in DateButtons : handle_wake_date(c, d)
             \/ \E c \in Chats, t \in CustomDateTexts : handle_custom_wake_date(c, t)
             \/ \E c \in Chats, h \in HourButtons : handle_wake_hour(c, h)
             \/ \E c \in Chats, m \in MinuteButtons : handle_wake_minute(c, m)
             \/ \E c \in Chats : handle_sleep_notes(c)
             \/ \E c \in Chats : cancel_sleep(c)

\* One registered user with a timezone; the run starts with two stops of the
\* clock left.
InitSleep ==
    /\ now = LastMinute - 2 * TickMinutes
    /\ season = "winter"
    /\ users = {UserRow(1)}
    /\ timezones = [u \in UserIds |->
                      IF u = 1 THEN <<StoredTimezone("Asia/Kolkata", StartDay - 1)>>
                      ELSE <<>>]
    /\ serverOff = 0
    /\ reflections = <<>>
    /\ activities = <<>>
    /\ InitTables

SpecSleep == InitSleep /\ [][NextSleep]_vars

\* ------------------------------------------------------------ /water runs
\* The /water conversation of a registered user with a timezone, the clock
\* running, and /sleep started and cancelled in the same chat.
NextWater ==
    \/ /\ UNCHANGED laterVars
       /\ Tick
    \/ /\ UNCHANGED afterSleepVars
       /\    \/ \E c \in Chats : sleep(c)
             \/ \E c \in Chats : cancel_sleep(c)
    \/ /\ UNCHANGED afterWaterVars
       /\    \/ \E c \in Chats : water(c)
             \/ \E c \in Chats, d \in WaterDateButtons : handle_date(c, d)
             \/ \E c \in Chats, h \in WaterHourButtons : handle_hour(c, h)
             \/ \E c \in Chats, m \in MinuteButtons : handle_minute(c, m)
             \/ \E c \in Chats, a \in WATER_AMOUNTS : handle_amount(c, a)
             \/ \E c \in Chats : handle_notes(c)
             \/ \E c \in Chats : cancel_water(c)

SpecWater == InitSleep /\ [][NextWater]_vars

\* ------------------------------------------------------------ /register runs
\* No user yet, or the user of the first chat registered as a@x.io.
InitRegister ==
    /\ now = StartMinute
    /\ season = "winter"
    /\ users \in {{}, {[UserRow(1) EXCEPT !.email_id = "a@x.io"]}}
    /\ timezones = [u \in UserIds |-> <<>>]
    /\ serverOff = 0
    /\ reflections = <<>>
    /\ activities = <<>>
    /\ InitTables

\* Registration conversations from both chats, with /set_timezone cancelled
\* in between, which clears the user's user_data.
NextRegister ==
    \/ /\ UNCHANGED afterRegVars
       /\    \/ \E c \in Chats, limited \in BOOLEAN : register(c, limited)
             \/ \E c \in Chats, t \in NameTexts : handle_name(c, t)
             \/ \E c \in Chats, t \in EmailTexts : handle_email(c, t)
             \/ \E c \in Chats : cancel_register(c)
    \/ /\ UNCHANGED laterVars
       /\    \/ \E c \in Chats : set_timezone(c)
             \/ \E c \in Chats : cancel_timezone(c)

SpecRegister == InitRegister /\ [][NextRegister]_vars

\* ------------------------------------------------------------ runs with a failing session
NextSave ==
    /\ UNCHANGED afterSaveVars
    /\    \/ \E m \in LoggingConversations : start_logging(m)
          \/ \E m \in LoggingConversations : cancel_logging(m)
          \/ \E f \in Faults : save_sleep_record_try(f)
          \/ \E f \in Faults : save_water_record_try(f)
          \/ \E f \in Faults : save_thought_record(f)
          \/ \E f \in Faults : save_task_record(f)
          \/ \E f \in Faults : save_prompt_try(f)
          \/ \E f \in Faults : save_timezone_try(f)
          \/ \E f \in Faults : save_user_try(f)
          \/ \E f \in Faults : save_food_record(f)
          \/ \E f \in Faults : save_gym_record(f)
          \/ \E f \in Faults : save_yoga_record(f)
          \/ \E f \in Faults : save_pranayam_record(f)

SpecSave == InitSleep /\ [][NextSave]_vars

\* ------------------------------------------------------------ /goals runs
\* Two registered users edit and delete goals.
InitGoals ==
    /\ now = StartMinute
    /\ season = "winter"
    /\ users = {UserRow(1), UserRow(2)}
    /\ timezones = [u \in UserIds |-> <<>>]
    /\ serverOff = 0
    /\ reflections = <<>>
    /\ activities = <<>>
    /\ InitTables

NextGoals ==
    /\ UNCHANGED afterGoalVars
    /\    \/ \E c \in Chats : goals_command(c)
          \/ \E c \in Chats, d \in GoalButtons : handle_goal_selection(c, d)
          \/ \E c \in Chats, t \in GoalTexts : handle_goal_input(c, t)
          \/ \E c \in Chats : cancel_goals(c)
          \/ \E u \in UserIds, a \in GoalAreas : delete_goal(u, a)

SpecGoals == InitGoals /\ [][NextGoals]_vars

\* ------------------------------------------------------------ transaction() runs
NextTxn ==
    \/ \E cm \in ContextManagers : enter_transaction(cm)
    \/ \E o \in BodyOutcomes : body_ends(o)
    \/ \E o \in CommitOutcomes : commit_session(o)
    \/ rollback_and_raise
    \/ close_session

SpecTxn == InitSleep /\ [][NextTxn]_vars

\* ------------------------------------------------------------ decorator runs
\* Any of the two users registered, with or without a timezones row.
InitDecorators ==
    /\ now = StartMinute
    /\ season = "winter"
    /\ users \in SUBSET {UserRow(1), UserRow(2)}
    /\ timezones \in [UserIds -> {<<>>, <<StoredTimezone("Asia/Kolkata", StartDay - 1)>>}]
    /\ \A u \in UserIds : get_by_id(u).id = 0 => timezones[u] = <<>>
    /\ serverOff = 0
    /\ reflections = <<>>
    /\ activities = <<>>
    /\ InitTables

NextDecorators ==
    \/ \E c \in Chats, r \in ReturnStates : require_user(c, r)
    \/ \E c \in Chats, r \in ReturnStates : require_timezone(c, r)

SpecDecorators == InitDecorators /\ [][NextDecorators]_vars

\* ------------------------------------------------------------ item runs
NextItems ==
    \/ \E t \in ItemInputs : enter_item(t)
    \/ store_items
    \/ show_items

SpecItems == InitSleep /\ [][NextItems]_vars

\* ------------------------------------------------------------ runs without a timezone
\* Two registered users with nothing logged: user 1 has no timezones row, user
\* 2 has one.
InitNoTimezone ==
    /\ now = StartMinute
    /\ season = "winter"
    /\ users = {UserRow(1), UserRow(2)}
    /\ timezones = [u \in UserIds |->
                      IF u = 2 THEN <<StoredTimezone("Asia/Kolkata", StartDay - 1)>>
                      ELSE <<>>]
    /\ serverOff = 0
    /\ reflections = <<>>
    /\ activities = <<>>
    /\ InitTables

\* /sleep and /water from either chat, /rundown from the chat of user 1.
NextNoTimezone ==
    \/ /\ UNCHANGED afterSleepVars
       /\    \/ \E c \in Chats : sleep(c)
             \/ \E c \in Chats : cancel_sleep(c)
    \/ /\ UNCHANGED afterWaterVars
       /\    \/ \E c \in Chats : water(c)
             \/ \E c \in Chats : handle_date(c, "today")
             \/ \E c \in Chats : handle_hour(c, "6")
             \/ \E c \in Chats : handle_minute(c, <<6, 0>>)
             \/ \E c \in Chats : handle_amount(c, 250)
             \/ \E c \in Chats : handle_notes(c)
             \/ \E c \in Chats : cancel_water(c)
    \/ /\ UNCHANGED laterVars
       /\    \/ rundown(ChatOf(1))
             \/ handle_continue_choice(ChatOf(1), "start_filling")
             \/ handle_item_input(ChatOf(1), "500ml")
             \/ skip_current_item(ChatOf(1))
             \/ cancel_rundown(ChatOf(1))

SpecNoTimezone == InitNoTimezone /\ [][NextNoTimezone]_vars

\* ------------------------------------------------------------ claims
DailyJobs == {j \in {jobs[i] : i \in 1 .. Len(jobs)} : j.callback = "send_daily_prompt"}

\* C1: for every user and prompt type, at most one prompt message of that type
\* is sent on any one local calendar day of the user, whatever /settings
\* changes reschedule the job in between.
C1_PromptAtMostOncePerLocalDay ==
    \A k \in DOMAIN sentCount : sentCount[k].n <= 1

\* The schedule in force for a user: the stored settings, or the column
\* defaults while no settings row exists.
ScheduleOf(uid) == IF uid \in DOMAIN settings THEN settings[uid] ELSE DefaultSettings

\* C2: whenever a registered user has a timezone, each of the user's enabled
\* daily prompts has a job, and that job is scheduled in the timezone the user
\* set most recently.
C2_PromptJobsInCurrentTimezone ==
    \A u \in users :
        HasTimezone(u.id) =>
            \A t \in PromptTypes :
                ScheduleOf(u.id).enabled[t] =>
                    \E j \in DailyJobs :
                        /\ j.name = PromptJobName(t, u.chat_id)
                        /\ j.tz = get_user_timezone(u.id)

\* C5: the timezone in force for a user today (the one local dates and
\* schedules are computed from) is the timezone of a row with the latest
\* effective_from that is not after today.
C5_InForceByEffectiveFrom ==
    \A u \in users :
        HasTimezone(u.id) =>
            LET rows == timezones[u.id]
                past == {i \in 1 .. Len(rows) : rows[i].effective_from <= ServerToday}
                latest == {i \in past :
                             \A k \in past :
                                 rows[k].effective_from <= rows[i].effective_from}
            IN get_user_timezone(u.id) \in {ZoneOfRecord(rows[i]) : i \in latest}

\* The minutes a stored offset string ("+5:30", "-10:00") stands for.
OffsetMinutes(str) ==
    CASE str = "+5:30"  -> 5 * 60 + 30
      [] str = "+0:00"  -> 0
      [] str = "-10:00" -> 0 - 10 * 60
      [] str = "-9:00"  -> 0 - 9 * 60
      [] str = "-8:00"  -> 0 - 8 * 60
      [] str = "-7:00"  -> 0 - 7 * 60
      [] str = "-6:00"  -> 0 - 6 * 60
      [] str = "-5:00"  -> 0 - 5 * 60

UserOfChat(c) == CHOOSE u \in UserIds : ChatOf(u) = c

\* C8: a daily prompt message goes out only for a user who still exists and
\* has no response record of that prompt type for their current local date.
C8_NoPromptWhenAnsweredOrGone ==
    [][\A k \in DOMAIN sentCount :
          sentCount'[k] # sentCount[k] =>
              /\ \E u \in users : u.id = UserOfChat(k[1])
              /\ ~exists_for_date(k[2], UserOfChat(k[1]),
                                  get_user_local_date(UserOfChat(k[1])))]_vars

\* A job has fired for an answered prompt, and one for a user who is gone,
\* and a prompt has been sent as well.
C8_FiredForAnsweredAndGone ==
    fireLog = {"already_answered", "no_user", "sent"}

\* The row a step inserts into the reflection tables for the user of chat c,
\* when it inserts a theme.
ThemeSavedStep(c) ==
    /\ Len(reflections') = Len(reflections) + 1
    /\ reflections'[Len(reflections')].ptype = "themeoftheday"
    /\ reflections'[Len(reflections')].user_id = UserOfChat(c)

\* The reminder jobs of chat c for its local today that are in queue q.
ReminderNumbers(q, c) ==
    {i \in 1 .. 3 :
        \E k \in 1 .. Len(q) :
            /\ q[k].name = ThemeReminderName(c, get_user_local_date(UserOfChat(c)), i)
            /\ q[k].callback = "send_theme_reminder"
            /\ q[k].next_run = now + i * 3 * 60}

RemindersLeft(m) ==
    IF m < 15 * 60 THEN 3 ELSE IF m < 18 * 60 THEN 2 ELSE IF m < 21 * 60 THEN 1 ELSE 0

C10_SavedWithinItemLimits ==
    [][/\ Len(reflections') > Len(reflections) =>
            LET row == reflections'[Len(reflections')]
            IN /\ Len(row.content) >= PROMPT_CONFIG(row.ptype).min_items
               /\ Len(row.content) <= PROMPT_CONFIG(row.ptype).max_items
       /\ \A c \in Chats, t \in PromptTypes :
            (done_items(c, t) /\ Len(chat_data[c].items) < PROMPT_CONFIG(t).min_items)
               => /\ promptConv'[c][t] = "COLLECTING"
                  /\ reflections' = reflections
       /\ \A c \in Chats, t \in PromptTypes, x \in ItemTexts :
            (/\ handle_item(c, t, x)
             /\ strip(x) # ""
             /\ get_user_by_chat_id(c).id # 0
             /\ \/ PROMPT_CONFIG(t).max_items = 1
                \/ Len(chat_data[c].items) + 1 >= PROMPT_CONFIG(t).max_items)
               => Len(reflections') = Len(reflections) + 1]_vars

C3_AllDoneOnlyAfterEveryItemPrompted ==
    [][\A c \in Chats :
          /\ (rundown(c) /\ get_user_by_chat_id(c).id # 0) =>
                rundownHist'[c].missing =
                    MissingItems(UserOfChat(c), get_user_local_date(UserOfChat(c)))
          /\ rundownHist'[c].all_done =>
                \A i \in 1 .. Len(rundownHist'[c].missing) :
                    rundownHist'[c].missing[i] \in rundownHist'[c].prompted]_vars

\* C4: once the user has supplied input for a missing item and the rundown has
\* moved on, the item counts as logged for the rest of that user-local day.
C4_FilledItemIsLogged ==
    \A c \in Chats :
        \A f \in rundownHist[c].filled :
            f[2] = get_user_local_date(UserOfChat(c))
                => Logged(f[1], UserOfChat(c), f[2])

\* The wake time a step of the wake handlers has at hand: "now" of the date and
\* hour keyboards, or the date chosen before with the minute button pressed.
WakeCandidates(c) ==
    {ServerNow} \cup
    {combine_date_time(chat_data[c].wake_date, m) : m \in MinuteButtons}

WaterQuestions == <<"DATE", "HOUR", "MINUTE", "AMOUNT", "NOTES">>

\* The steps water_handler's states allow: one question on, or the end.
WaterEdges ==
    {<<"END", "DATE">>, <<"DATE", "HOUR">>, <<"HOUR", "MINUTE">>,
     <<"MINUTE", "AMOUNT">>, <<"AMOUNT", "NOTES">>}
    \cup {<<q, "END">> : q \in {"DATE", "HOUR", "MINUTE", "AMOUNT", "NOTES"}}

\* C15: the /water conversation advances one question at a time in the order
\* DATE, HOUR, MINUTE, AMOUNT, NOTES; a Water row is saved only by the step
\* that answers NOTES after the other four were answered in that order; a
\* conversation completed that way saves exactly one row, with amount_ml in
\* {250, 500, 750, 1000, 1500, 2000}; a conversation that ends any other way
\* (/cancel, timeout, the 'other' date) saves nothing.
C15_OneRowPerCompletedWater ==
    [][\A c \in Chats :
          /\ waterConv'[c] # waterConv[c]
                => <<waterConv[c], waterConv'[c]>> \in WaterEdges
          /\ (waterConv[c] # "END" /\ waterConv'[c] = "END")
                => IF waterAnswered'[c] = WaterQuestions
                   THEN /\ Len(WaterRows') = Len(WaterRows) + 1
                        /\ WaterRows'[Len(WaterRows')].amount_ml \in WATER_AMOUNTS
                   ELSE WaterRows' = WaterRows
          /\ (\A d \in Chats : waterConv[d] = "END" \/ waterConv'[d] # "END")
                => WaterRows' = WaterRows]_vars

\* C12: no Wakesleep and no Water row belongs to a user who has no Timezone
\* record.
C12_NoSleepOrWaterWithoutTimezone ==
    /\ \A k \in 1 .. Len(wakesleeps) : HasTimezone(wakesleeps[k].user_id)
    /\ \A k \in 1 .. Len(WaterRows) : HasTimezone(WaterRows[k].user_id)

\* C13: no two User rows share a chat_id or an email_id; a step of the
\* registration conversations adds a row only for a chat without one, at the
\* end of that chat's EMAIL state, and never changes or removes a row;
\* /register from a registered chat leaves the chat outside the conversation;
\* an email address in use leaves the conversation in EMAIL and the table as
\* it is.
C13_UniqueUsers ==
    /\ [](\A r1, r2 \in users :
             (r1.chat_id = r2.chat_id \/ r1.email_id = r2.email_id) => r1 = r2)
    /\ [][/\ users \subseteq users'
          /\ \A r \in users' \ users :
                /\ users' = users \cup {r}
                /\ get_user_by_chat_id(r.chat_id).id = 0
                /\ regConv[r.chat_id] = "EMAIL"
                /\ regConv'[r.chat_id] = "END"
          /\ \A c \in Chats :
                /\ (regInput'.chat = c /\ regInput'.text = "/register"
                       /\ get_user_by_chat_id(c).id # 0)
                      => (regConv'[c] = "END" /\ users' = users
                             /\ user_data' = user_data)
                /\ (regInput'.chat = c /\ regConv[c] = "EMAIL"
                       /\ regInput'.text \in EmailTexts
                       /\ \E r \in users : r.email_id = lower(strip(regInput'.text)))
                      => (regConv'[c] = "EMAIL" /\ users' = users)]_vars

\* Both chats registered, the second after its first address was refused as
\* in use.
C13_SecondChatRegistered ==
    /\ Cardinality(users) = 2
    /\ regInput = [chat |-> ChatOf(2), text |-> "b@x.io"]
    /\ \E r \in users : r.chat_id = ChatOf(2) /\ r.email_id = "b@x.io"
    /\ \E r \in users : r.chat_id = ChatOf(1) /\ r.email_id = "a@x.io"

\* C14: when the add or the commit of any logging conversation's record
\* fails, no row is added, the session is rolled back, the user gets an error
\* message, the conversation's data is cleared, the conversation has ended and
\* the exception has not left the handler.
C14_FailedSaveEndsCleanly ==
    [][(saveLog'.n # saveLog.n /\ saveLog'.fault # "none")
          => /\ saveRows' = saveRows
             /\ saveLog'.rolled_back
             /\ saveLog'.error_sent
             /\ ~saveData'[StoreOf(saveLog'.conv)]
             /\ saveConv'[saveLog'.conv] = "END"
             /\ ~saveLog'.escaped]_vars

\* The rows of table goals for a user and an area.
GoalsFor(rows, uid, area) ==
    SelectSeq(rows, LAMBDA g : g.user_id = uid /\ g.area = area)

\* C16: there is at most one Goal row per user and area at any time; a call
\* of set_goal changes the text of the row that exists for the user and area,
\* or adds one row when there is none, and get_by_user_and_area then returns
\* the text just set; delete_goal returns True exactly when a row existed, and
\* no row for the user and area is left after it; rows of other users and
\* areas stay as they are.
C16_OneGoalPerUserAndArea ==
    /\ [](\A u \in UserIds, a \in GoalAreas : Len(GoalsFor(goals, u, a)) <= 1)
    /\ [][goalLog'.n # goalLog.n =>
            LET u == goalLog'.user_id
                a == goalLog'.area
                before == get_by_user_and_area(goals, u, a)
                after == get_by_user_and_area(goals', u, a)
            IN /\ \A v \in UserIds, b \in GoalAreas :
                     <<v, b>> # <<u, a>> => GoalsFor(goals', v, b) = GoalsFor(goals, v, b)
               /\ goalLog'.op = "set_goal" =>
                     /\ after.goal_text = goalLog'.goal_text
                     /\ before.id # 0 => (after.id = before.id /\ Len(goals') = Len(goals))
                     /\ before.id = 0 => Len(goals') = Len(goals) + 1
               /\ goalLog'.op = "delete_goal" =>
                     /\ goalLog'.result = (before.id # 0)
                     /\ after.id = 0]_vars

\* The second call of set_goal for a user and area has changed the text of
\* the row the first call added.
C16_GoalUpdatedInPlace ==
    /\ goalLog.n = 2
    /\ goalLog.op = "set_goal"
    /\ goalLog.goal_text = "7 hours"
    /\ Len(goals) = 1
    /\ goals[1].id = 1
    /\ goals[1].goal_text = "7 hours"

\* C17 as stated: in every with block that has been left, the session was
\* closed exactly once, as the last call; when the body completed and the
\* commit went through, commit was called and rollback was not, and nothing
\* was raised; when the body or the commit raised, rollback was called and
\* the exception reached the caller.
C17_RollbackWheneverRaised ==
    \A k \in 1 .. Len(txnLog) :
        LET t == txnLog[k]
            Count(c) == Cardinality({i \in 1 .. Len(t.calls) : t.calls[i] = c})
        IN /\ Count("close") = 1
           /\ t.calls[Len(t.calls)] = "close"
           /\ (t.body = "returns" /\ t.commit = "returns")
                 => (Count("commit") = 1 /\ Count("rollback") = 0 /\ t.raised = "none")
           /\ (t.body # "returns" \/ t.commit # "returns")
                 => (Count("rollback") = 1 /\ t.raised # "none")

\* C17, amended: as above, but rollback is called when the body or the commit
\* raised an exception of class Exception; an exception outside that class
\* reaches the caller with the session closed and rollback not called.
C17_RollbackOnException ==
    \A k \in 1 .. Len(txnLog) :
        LET t == txnLog[k]
            Count(c) == Cardinality({i \in 1 .. Len(t.calls) : t.calls[i] = c})
        IN /\ Count("close") = 1
           /\ t.calls[Len(t.calls)] = "close"
           /\ (t.body = "returns" /\ t.commit = "returns")
                 => (t.calls = <<"commit", "close">> /\ t.raised = "none")
           /\ t.body = "Exception"
                 => (t.calls = <<"rollback", "close">> /\ t.raised = "Exception")
           /\ (t.body = "returns" /\ t.commit = "Exception")
                 => (t.calls = <<"commit", "rollback", "close">> /\ t.raised = "Exception")
           /\ t.body = "BaseException"
                 => (t.calls = <<"close">> /\ t.raised = "BaseException")

\* One with block was left after its commit raised, another after its body
\* raised.
C17_CommitAndBodyRaised ==
    /\ Len(txnLog) = 2
    /\ txnLog[1].body = "returns" /\ txnLog[1].commit = "Exception"
    /\ txnLog[2].body = "Exception"

\* C18: the body of a handler wrapped with require_user has run exactly when
\* a User exists for the chat, and the body of one wrapped with
\* require_timezone exactly when that user also has a Timezone record; when it
\* has not run, the register message (no user) or the set-timezone message (no
\* timezone) was sent and the wrapper returned return_state, None when none
\* was given.
C18_BodyOnlyForAllowedUser ==
    decoLog.decorator # NoVal =>
        LET user == get_user_by_chat_id(decoLog.chat)
            allowed == /\ user.id # 0
                       /\ decoLog.decorator = "require_timezone" => HasTimezone(user.id)
        IN /\ decoLog.body_ran <=> allowed
           /\ allowed => (decoLog.message = "none" /\ decoLog.returned = HandlerReturn)
           /\ ~allowed =>
                 /\ decoLog.message = IF user.id = 0 THEN "register" ELSE "set_timezone"
                 /\ decoLog.returned = decoLog.return_state

\* A registered user without a timezone was turned away by require_timezone
\* with return_state END.
C18_TurnedAwayWithoutTimezone ==
    /\ decoLog.decorator = "require_timezone"
    /\ get_user_by_chat_id(decoLog.chat).id # 0
    /\ ~HasTimezone(get_user_by_chat_id(decoLog.chat).id)
    /\ decoLog.return_state = -1
    /\ decoLog.returned = -1
    /\ decoLog.message = "set_timezone"
    /\ ~decoLog.body_ran

\* C19: split_items(join_items(items)) = items for every list of item texts a
\* user can enter, so a record shows as many items as the user sent.
C19_SplitGivesTheItemsBack ==
    itemsPhase = "shown" =>
        /\ itemsShown = itemsEntered
        /\ Len(itemsShown) = Len(itemsEntered)

\* C20: for every user, prompt type and prompt date at most one daily
\* reflection record is stored, after any interleaving in one chat of the
\* prompt conversations and the /rundown fills.
C20_OneReflectionPerDay ==
    \A i, j \in 1 .. Len(reflections) :
        (/\ reflections[i].ptype = reflections[j].ptype
         /\ reflections[i].user_id = reflections[j].user_id
         /\ reflections[i].prompt_date = reflections[j].prompt_date) => i = j

\* The jobs of the queue that carry the name of the daily prompt `ptype` of
\* the chat.
JobsNamed(ptype, chat) ==
    SelectSeq(jobs, LAMBDA j : j.name = PromptJobName(ptype, chat))

\* The daily prompt jobs of user u are what the stored schedule asks for: one
\* job per enabled prompt type, at the stored time, and none for a disabled
\* type.
JobsMatchSchedule(u) ==
    \A t \in PromptTypes :
        LET named == JobsNamed(t, u.chat_id)
        IN IF ScheduleOf(u.id).enabled[t]
           THEN /\ Len(named) = 1
                /\ named[1].callback = "send_daily_prompt"
                /\ named[1].prompt_type = t
                /\ named[1].hm = ScheduleOf(u.id).time[t]
           ELSE named = <<>>

\* C21: no two jobs ever carry the same name; a /settings time update or
\* enable/disable toggle of a user with a timezone leaves exactly one job
\* prompt_<type>_<chat_id> per enabled type, at the stored time, and none for a
\* disabled type; and the jobs stay so whatever happens next.
C21_JobsFollowSettings ==
    /\ [](\A i, k \in 1 .. Len(jobs) : jobs[i].name = jobs[k].name => i = k)
    /\ [][\A u \in users :
             HasTimezone(u.id) =>
                /\ (\/ ScheduleOf(u.id).time # ScheduleOf(u.id).time'
                    \/ ScheduleOf(u.id).enabled # ScheduleOf(u.id).enabled')
                      => JobsMatchSchedule(u)'
                /\ JobsMatchSchedule(u) => JobsMatchSchedule(u)']_vars

\* The user has turned the self-love prompt off and moved the gratitude prompt
\* to 21:00; three jobs are left and the gratitude job has already fired once.
C21_ToggledAndRetimed ==
    \E u \in users :
        /\ HasTimezone(u.id)
        /\ u.id \in DOMAIN settings
        /\ ~settings[u.id].enabled["selflove"]
        /\ settings[u.id].time["gratitude"] = <<21, 0>>
        /\ JobsMatchSchedule(u)
        /\ Len(jobs) = 3
        /\ sentCount[<<u.chat_id, "gratitude">>].n > 0

\* The sections of the last /myday are the items get_today_status reports as
\* logged for the user and the date of that /myday.
MydayLogAgrees ==
    \A i \in 1 .. Len(RUNDOWN_ORDER) :
        RUNDOWN_ORDER[i] \in mydayLog.sections
           <=> Logged(RUNDOWN_ORDER[i], mydayLog.user_id, mydayLog.today)

\* C22: /myday shows the section of an activity or prompt type if and only if
\* /rundown's get_today_status reports that type as logged, for the same user,
\* the same tables and the same local date.
C22_MydayAgreesWithRundown ==
    [][mydayLog'.n # mydayLog.n => MydayLogAgrees']_vars

\* C23: a second command started in the chat neither erases nor alters what an
\* open conversation has collected, and every record saved holds exactly the
\* inputs given to its own conversation: the thoughts an open /thought
\* conversation holds are the texts it has taken, and so is the content of
\* every row it stores.
C23_NoInterference ==
    /\ \A c \in Chats :
          thoughtConv[c] = "WRITING" => chat_data[c].thoughts = thoughtGiven[c]
    /\ \A k \in 1 .. Len(thoughtRows) : thoughtRows[k].content = thoughtRows[k].given

====
